---------------------------- MODULE Spec2Model ----------------------------
(***************************************************************************)
(* DNS tunnel transport: the library of src/dnstunnel.py (DNSTunnelClient  *)
(* and DNSTunnelServer) and the standalone server of src/server.py.        *)
(*                                                                         *)
(* Text is a sequence of ASCII codes, a datagram a sequence of bytes       *)
(* (0..255).  An optional value is a sequence of length 0 (None) or 1.     *)
(***************************************************************************)
EXTENDS Integers, Sequences, FiniteSets, TLC

None == <<>>
Some(x) == <<x>>

(***************************************************************************)
(* Characters and text helpers (Python str/bytes operations).              *)
(***************************************************************************)
ChDot == 46
ChHyphen == 45
ChColon == 58
ChSlash == 47
ChEquals == 61
ChZero == 48

Pow2(n) == 2 ^ n

\* the function f with domain 1..n as an explicit tuple
AsSeq(f) == f \o <<>>

Min(a, b) == IF a <= b THEN a ELSE b

\* s[a:b] of Python, 0-based half-open, clamped to the sequence
Slice(s, a, b) == SubSeq(s, a + 1, Min(b, Len(s)))

\* str.lower() / str.upper() on ASCII
LowerCh(c) == IF c >= 65 /\ c <= 90 THEN c + 32 ELSE c
UpperCh(c) == IF c >= 97 /\ c <= 122 THEN c - 32 ELSE c
Lower(s) == AsSeq([i \in 1..Len(s) |-> LowerCh(s[i])])
Upper(s) == AsSeq([i \in 1..Len(s) |-> UpperCh(s[i])])

\* bytes.decode('ascii', errors='ignore'): bytes above 127 are dropped
DecodeAscii(b) == SelectSeq(b, LAMBDA x : x < 128)

\* s.startswith(p) / s.endswith(p)
StartsWith(s, p) == Len(s) >= Len(p) /\ SubSeq(s, 1, Len(p)) = p
EndsWith(s, p) == Len(s) >= Len(p) /\ SubSeq(s, Len(s) - Len(p) + 1, Len(s)) = p

\* index (1-based) of the first occurrence of c in s, 0 if there is none
Find(s, c) ==
  LET hits == {i \in 1..Len(s) : s[i] = c} IN
  IF hits = {} THEN 0 ELSE CHOOSE i \in hits : \A j \in hits : i <= j

\* s.split(c, maxsplit); maxsplit = -1 splits everywhere
RECURSIVE Split(_, _, _)
Split(s, c, maxsplit) ==
  LET k == Find(s, c) IN
  IF maxsplit = 0 \/ k = 0 THEN <<s>>
  ELSE <<SubSeq(s, 1, k - 1)>> \o Split(SubSeq(s, k + 1, Len(s)), c, maxsplit - 1)

\* ''.join(parts)
RECURSIVE Join(_)
Join(parts) == IF parts = <<>> THEN <<>> ELSE Head(parts) \o Join(Tail(parts))

\* str(n) for n >= 0
RECURSIVE IntToStr(_)
IntToStr(n) ==
  IF n < 10 THEN <<ChZero + n>> ELSE IntToStr(n \div 10) \o <<ChZero + (n % 10)>>

IsDigit(c) == c >= 48 /\ c <= 57
IsSpace(c) == (c >= 9 /\ c <= 13) \/ c = 32
ChPlus == 43
ChUnderscore == 95

\* s.strip()
RECURSIVE Strip(_)
Strip(s) ==
  IF s # <<>> /\ IsSpace(s[1]) THEN Strip(Tail(s))
  ELSE IF s # <<>> /\ IsSpace(s[Len(s)]) THEN Strip(SubSeq(s, 1, Len(s) - 1))
  ELSE s

\* the digits of an integer literal: digits with single underscores between them
IsDigits(s) ==
  /\ Len(s) > 0
  /\ \A i \in 1..Len(s) : IsDigit(s[i]) \/ s[i] = ChUnderscore
  /\ IsDigit(s[1]) /\ IsDigit(s[Len(s)])
  /\ \A i \in 1..(Len(s) - 1) : ~(s[i] = ChUnderscore /\ s[i + 1] = ChUnderscore)

RECURSIVE DigitsValue(_)
DigitsValue(s) ==
  IF s = <<>> THEN 0
  ELSE IF s[Len(s)] = ChUnderscore THEN DigitsValue(SubSeq(s, 1, Len(s) - 1))
  ELSE 10 * DigitsValue(SubSeq(s, 1, Len(s) - 1)) + (s[Len(s)] - ChZero)

\* the value of a literal without its sign: Some(value), or None
ParseDigits(body, negative) ==
  IF ~IsDigits(body) THEN None
  ELSE IF negative THEN Some(0 - DigitsValue(body))
  ELSE Some(DigitsValue(body))

\* int() of a text without surrounding white space
ParseStripped(t) ==
  IF t # <<>> /\ t[1] \in {ChPlus, ChHyphen}
  THEN ParseDigits(Tail(t), t[1] = ChHyphen)
  ELSE ParseDigits(t, FALSE)

\* int(s): Some(value), or None where int() raises ValueError
ParseInt(s) == ParseStripped(Strip(s))

(***************************************************************************)
(* Channel alphabet codec: base64.b32encode / base64.b32decode.            *)
(***************************************************************************)
\* the byte at 0-based position q of a byte string, 0 past the end
ByteAt(data, q) == IF q < Len(data) THEN data[q + 1] ELSE 0

\* the i-th (1-based) 5-bit group of the bit stream of a byte string, most
\* significant bit first, zero bits past the end: bits 5(i-1) .. 5(i-1)+4,
\* cut out of the two bytes they lie in
Quintet(data, i) ==
  LET k == 5 * (i - 1)
      q == k \div 8
      window == 256 * ByteAt(data, q) + ByteAt(data, q + 1)
  IN (window \div Pow2(11 - (k % 8))) % 32

\* RFC 4648 base32 alphabet, upper case: A-Z 2-7
B32Char(v) == IF v < 26 THEN 65 + v ELSE 50 + (v - 26)
IsB32Char(c) == (c >= 65 /\ c <= 90) \/ (c >= 50 /\ c <= 55)
B32Value(c) == IF c >= 65 THEN c - 65 ELSE 26 + (c - 50)

\* base64.b32encode(data).decode('ascii').lower().rstrip('=')
bytes_to_text(data) ==
  AsSeq([i \in 1..((8 * Len(data) + 4) \div 5) |-> LowerCh(B32Char(Quintet(data, i)))])

\* s.rstrip('=')
RECURSIVE RStripPad(_)
RStripPad(s) ==
  IF s # <<>> /\ s[Len(s)] = ChEquals THEN RStripPad(SubSeq(s, 1, Len(s) - 1)) ELSE s

\* the 5-bit value at 0-based position q of a text, 0 past the end
ValueAt(vals, q) == IF q < Len(vals) THEN vals[q + 1] ELSE 0

\* the j-th (1-based) byte of the bit stream of the 5-bit values: bits
\* 8(j-1) .. 8(j-1)+7, cut out of the three values they lie in
TextByte(vals, j) ==
  LET k == 8 * (j - 1)
      q == k \div 5
      window == 1024 * ValueAt(vals, q) + 32 * ValueAt(vals, q + 1) + ValueAt(vals, q + 2)
  IN (window \div Pow2(7 - (k % 5))) % 256

\* base64.b32decode(s): Some(bytes), or None where it raises binascii.Error
\* the 5-bit values of a text of base32 digits
B32Values(stripped) == AsSeq([i \in 1..Len(stripped) |-> B32Value(stripped[i])])

\* the bytes of the 5-bit values of a text that ended in padchars '='
B32Bytes(vals, padchars) ==
  LET full == 5 * ((Len(vals) + 7) \div 8) IN
  AsSeq([j \in 1..(IF padchars = 0 \/ vals = <<>>
                   THEN full ELSE full - 5 + ((43 - 5 * padchars) \div 8)) |->
           TextByte(vals, j)])

\* b32decode of a text whose length is a multiple of 8, s without its padding
B32DecodeStripped(stripped, padchars) ==
  IF \E i \in 1..Len(stripped) : ~IsB32Char(stripped[i]) THEN None
  ELSE IF padchars \notin {0, 1, 3, 4, 6} THEN None
  ELSE Some(B32Bytes(B32Values(stripped), padchars))

\* the number of '=' a text ends in
PadChars(s) == Len(s) - Len(RStripPad(s))

\* base64.b32decode(s): Some(bytes), or None where it raises binascii.Error
b32decode(s) ==
  IF Len(s) % 8 # 0 THEN None ELSE B32DecodeStripped(RStripPad(s), PadChars(s))

\* a decode that does not restore the padding
text_to_bytesUnpadded(t) == b32decode(Upper(t))
\* padding = (8 - len(t) % 8) % 8; t += '=' * padding; base64.b32decode(t.upper())
text_to_bytes(t) ==
  b32decode(Upper(t \o AsSeq([i \in 1..((8 - (Len(t) % 8)) % 8) |-> ChEquals])))

\* a slicing that keeps the full pieces only
sliceFullOnly(text, width) ==
  AsSeq([k \in 1..(Len(text) \div width) |-> Slice(text, (k - 1) * width, k * width)])
\* [text[i:i+width] for i in range(0, len(text), width)]
slice(text, width) ==
  AsSeq([k \in 1..((Len(text) + width - 1) \div width) |->
           Slice(text, (k - 1) * width, k * width)])

(***************************************************************************)
(* Wire codec of src/dnstunnel.py: raw query and response datagrams.       *)
(***************************************************************************)
TYPE_A == 1
TYPE_TXT == 16

\* struct.pack('!H', n)
PackU16(n) == <<n \div 256, n % 256>>
\* struct.unpack('!H', b)[0] for a 2-byte string
UnpackU16(b) == 256 * b[1] + b[2]

\* b''.join(struct.pack('B', len(label)) + label for label in labels)
RECURSIVE PackLabels(_)
PackLabels(labels) ==
  IF labels = <<>> THEN <<>>
  ELSE <<Len(Head(labels))>> \o Head(labels) \o PackLabels(Tail(labels))

\* DNSTunnelClient._create_dns_query; the random transaction id is an input
create_dns_query(subdomain, domain, query_type, transaction_id) ==
  LET flags == 256
      header == PackU16(transaction_id) \o PackU16(flags) \o PackU16(1)
                  \o PackU16(0) \o PackU16(0) \o PackU16(0)
      full_domain == subdomain \o <<ChDot>> \o domain
      question == PackLabels(Split(full_domain, ChDot, -1)) \o <<0>>
                    \o PackU16(query_type) \o PackU16(1)
  IN header \o question

\* the label loop of DNSTunnelServer._parse_dns_query: <<labels, offset>>,
\* offset 0-based, slices clamped as Python clamps them
RECURSIVE ParseLabels(_, _, _)
ParseLabels(data, offset, labels) ==
  IF offset < Len(data) /\ data[offset + 1] # 0
  THEN LET length == data[offset + 1] IN
       ParseLabels(data, offset + 1 + length,
                   Append(labels, DecodeAscii(Slice(data, offset + 1, offset + 1 + length))))
  ELSE <<labels, offset>>

\* '.'.join(labels)
RECURSIVE JoinDots(_)
JoinDots(labels) ==
  IF labels = <<>> THEN <<>>
  ELSE IF Len(labels) = 1 THEN Head(labels)
  ELSE Head(labels) \o <<ChDot>> \o JoinDots(Tail(labels))

\* a decoder that keeps the case of the name
ParseQuestionKeepCase(data, labels, raw_type) ==
  IF Len(raw_type) # 2 THEN None
  ELSE Some(<<UnpackU16(Slice(data, 0, 2)), JoinDots(labels), UnpackU16(raw_type)>>)

\* DNSTunnelServer._parse_dns_query: Some(<<transaction_id, query_name,
\* query_type>>), or None
ParseQuestion(data, labels, raw_type) ==
  IF Len(raw_type) # 2 THEN None
  ELSE Some(<<UnpackU16(Slice(data, 0, 2)), Lower(JoinDots(labels)), UnpackU16(raw_type)>>)

\* the query after the label loop, walked = <<labels, offset>>: "offset += 1",
\* then the two bytes of the query type
ParseWalked(data, walked) ==
  ParseQuestion(data, walked[1], Slice(data, walked[2] + 1, walked[2] + 3))

parse_dns_query(data) ==
  IF Len(data) < 12 THEN None ELSE ParseWalked(data, ParseLabels(data, 12, <<>>))

\* text segments of which only the first is written
TxtSegmentsFirst(txt_data) ==
  IF txt_data = <<>> THEN <<>>
  ELSE <<Len(Slice(txt_data, 0, 255))>> \o Slice(txt_data, 0, 255)

\* the 255-byte text segments of a text-record answer
RECURSIVE TxtSegments(_)
TxtSegments(txt_data) ==
  IF txt_data = <<>> THEN <<>>
  ELSE LET chunk == Slice(txt_data, 0, 255) IN
       <<Len(chunk)>> \o chunk \o TxtSegments(SubSeq(txt_data, Len(chunk) + 1, Len(txt_data)))

\* DNSTunnelServer._create_dns_response; response_data is None or Some(text)
create_dns_response(transaction_id, query_name, query_type, response_data) ==
  LET flags == 33152
      header == PackU16(transaction_id) \o PackU16(flags) \o PackU16(1)
                  \o PackU16(1) \o PackU16(0) \o PackU16(0)
      labels == SelectSeq(Split(query_name, ChDot, -1), LAMBDA l : l # <<>>)
      question == PackLabels(labels) \o <<0>> \o PackU16(query_type) \o PackU16(1)
      answer == <<192, 12>> \o PackU16(query_type) \o PackU16(1) \o <<0, 0>> \o PackU16(300)
      rdata == IF query_type = TYPE_A THEN PackU16(4) \o <<127, 0, 0, 1>>
               ELSE IF query_type = TYPE_TXT
               THEN IF response_data # None /\ response_data[1] # <<>>
                    THEN LET txt_record == TxtSegments(response_data[1]) IN
                         PackU16(Len(txt_record)) \o txt_record
                    ELSE PackU16(1) \o <<0>>
               ELSE <<>>
  IN header \o question \o answer \o rdata

\* "while response[offset] != 0: offset += response[offset] + 1": the offset
\* of the zero byte, or -1 where the index runs off the buffer (IndexError)
RECURSIVE SkipName(_, _)
SkipName(response, offset) ==
  IF offset >= Len(response) THEN -1
  ELSE IF response[offset + 1] = 0 THEN offset
  ELSE SkipName(response, offset + response[offset + 1] + 1)

\* the text-segment loop of DNSTunnelClient._parse_dns_response
RECURSIVE ReadSegments(_, _)
ReadSegments(data, i) ==
  IF i >= Len(data) THEN <<>>
  ELSE LET str_len == data[i + 1] IN
       IF i + 1 + str_len > Len(data) THEN <<>>
       ELSE <<DecodeAscii(Slice(data, i + 1, i + 1 + str_len))>>
              \o ReadSegments(data, i + 1 + str_len)

\* DNSTunnelClient._parse_dns_response: Some(text) or None
\* "return ''.join(result) if result else None"
JoinSegments(result) == IF result # <<>> THEN Some(Join(result)) ELSE None

\* the record data behind the 2-byte length at offset len_at
ParseRdata(response, len_at, raw_len) ==
  IF Len(raw_len) # 2 THEN None
  ELSE JoinSegments(ReadSegments(Slice(response, len_at + 2,
                                       len_at + 2 + UnpackU16(raw_len)), 0))

\* the answer whose name ends at offset n_end (-1: IndexError): type, class
\* and TTL are skipped
ParseAnswer(response, n_end) ==
  IF n_end < 0 THEN None
  ELSE ParseRdata(response, n_end + 8, Slice(response, n_end + 8, n_end + 10))

\* the offset behind a name that is not a compression pointer
NameEnd(z) == IF z < 0 THEN -1 ELSE z + 1

\* the answer section at offset a_start: a compression pointer, or a name
ParseAnswerName(response, a_start) ==
  IF Len(response) <= a_start THEN None
  ELSE ParseAnswer(response, IF (response[a_start + 1] \div 64) # 0
                             THEN a_start + 2
                             ELSE NameEnd(SkipName(response, a_start)))

\* the question section ends at the zero byte at q_end (-1: IndexError)
ParseQuestionEnd(response, q_end) ==
  IF q_end < 0 THEN None ELSE ParseAnswerName(response, q_end + 5)

parse_dns_response(response) == ParseQuestionEnd(response, SkipName(response, 12))

(***************************************************************************)
(* DNSTunnelServer of src/dnstunnel.py: session store and query handler.   *)
(***************************************************************************)
VARIABLES
  sessions,          \* self.sessions: session id -> (chunk index -> chunk text)
  session_metadata,  \* self.session_metadata: session id -> <<total, time>>
  response_queue,    \* self.response_queue: session id -> chunk texts
  now,               \* the clock read by time.time()
  callbacks,         \* on_data_received calls made by the last handler run
  sent,              \* <<datagram, address>> sent by the last handler run
  fault              \* the last handler run ended in an uncaught exception

max_chunk_size == 180
header_overhead == 20

\* dict helpers
EmptyDict == <<>>
Has(d, k) == k \in DOMAIN d
Put(d, k, v) == [x \in (DOMAIN d) \cup {k} |-> IF x = k THEN v ELSE d[x]]
Del(d, k) == [x \in (DOMAIN d) \ {k} |-> d[x]]

\* "RECV", the marker _decode_subdomain returns for a poll
RECV == <<82, 69, 67, 86>>
\* 'recv-'
RecvPrefix == <<114, 101, 99, 118, 45>>
\* "CHUNK:"
ChunkPrefix == <<67, 72, 85, 78, 75, 58>>

\* f"CHUNK:{i}/{total_chunks}:"
ChunkHeader(i, total_chunks) ==
  ChunkPrefix \o IntToStr(i) \o <<ChSlash>> \o IntToStr(total_chunks) \o <<ChColon>>

\* chunk_data = encoded[start:end] of queue_response, a body that starts one
\* character late
ChunkBodyShifted(encoded, i, effective_chunk_size) ==
  Slice(encoded, i * effective_chunk_size + 1, (i + 1) * effective_chunk_size + 1)

\* start = i * effective_chunk_size; end = start + effective_chunk_size;
\* chunk_data = encoded[start:end]
ChunkBody(encoded, i, effective_chunk_size) ==
  Slice(encoded, i * effective_chunk_size, i * effective_chunk_size + effective_chunk_size)

\* DNSTunnelServer.queue_response: the chunk list stored for the payload
\* the chunk list of an encoded text longer than effective_chunk_size
FramedChunks(encoded, effective_chunk_size, total_chunks) ==
  AsSeq([k \in 1..total_chunks |->
           ChunkHeader(k - 1, total_chunks) \o ChunkBody(encoded, k - 1, effective_chunk_size)])

\* a chunk list that frames a text of exactly effective_chunk_size
ChunkListStrict(encoded, effective_chunk_size) ==
  IF Len(encoded) < effective_chunk_size THEN <<encoded>>
  ELSE FramedChunks(encoded, effective_chunk_size,
                    (Len(encoded) + effective_chunk_size - 1) \div effective_chunk_size)

\* the chunk list of an encoded text
ChunkList(encoded, effective_chunk_size) ==
  IF Len(encoded) <= effective_chunk_size THEN <<encoded>>
  ELSE FramedChunks(encoded, effective_chunk_size,
                    (Len(encoded) + effective_chunk_size - 1) \div effective_chunk_size)

response_chunks(data) == ChunkList(bytes_to_text(data), max_chunk_size - header_overhead)

\* a queue_response that drops what is queued for the other sessions
queue_responseReplacing(queue, session_id, data) ==
  Put(EmptyDict, session_id, response_chunks(data))

\* a queue_response that appends to what is queued for the session
queue_responseAppending(queue, session_id, data) ==
  Put(queue, session_id,
      (IF Has(queue, session_id) THEN queue[session_id] ELSE <<>>) \o response_chunks(data))

\* DNSTunnelServer.queue_response as a function of the queue
queue_response(queue, session_id, data) == Put(queue, session_id, response_chunks(data))

\* DNSTunnelServer._decode_subdomain: Some(<<session_id, chunk_num,
\* total_chunks, chunk_data>>), or None
\* the returned tuple, None where one of the int() calls raised
DecodedFields(session_id, chunk_num, total_chunks, chunk_data) ==
  IF session_id = None \/ chunk_num = None \/ total_chunks = None THEN None
  ELSE Some(<<session_id[1], chunk_num[1], total_chunks[1], chunk_data>>)

\* a poll that must name its chunk index
DecodePollIndexed(parts) ==
  IF Len(parts) > 2
  THEN DecodedFields(ParseInt(parts[2]), ParseInt(parts[3]), Some(-1), RECV)
  ELSE None

\* parts = subdomain.split('-') of a poll: "recv", session id, chunk index
DecodePoll(parts) ==
  DecodedFields(ParseInt(parts[2]),
                IF Len(parts) > 2 THEN ParseInt(parts[3]) ELSE Some(0),
                Some(-1), RECV)

\* parts = subdomain.split('-', 3) of an upload chunk
DecodeUpload(parts) ==
  IF Len(parts) # 4 THEN None
  ELSE DecodedFields(ParseInt(parts[1]), ParseInt(parts[2]), ParseInt(parts[3]), parts[4])

\* the subdomain left of the domain
DecodeName(subdomain) ==
  IF StartsWith(subdomain, RecvPrefix)
  THEN DecodePoll(Split(subdomain, ChHyphen, -1))
  ELSE DecodeUpload(Split(subdomain, ChHyphen, 3))

decode_subdomain(query_name, domain) ==
  IF ~EndsWith(query_name, domain) THEN None
  ELSE DecodeName(Slice(query_name, 0, Len(query_name) - Len(domain) - 1))

\* outcome of DNSTunnelServer._assemble_session_data on the given store:
\* "raise" for the KeyError of a missing index, else value = None or Some(bytes)
\* the join and decode run as soon as the highest index is stored, over the
\* indices present
AssembleAtLastIndex(session_data, total_chunks) ==
  IF ~Has(session_data, total_chunks - 1) THEN [kind |-> "return", value |-> None]
  ELSE [kind |-> "return",
        value |-> text_to_bytes(Join(AsSeq([k \in 1..total_chunks |->
                    IF Has(session_data, k - 1) THEN session_data[k - 1] ELSE <<>>])))]

\* the join and decode over the chunks session_data of total_chunks expected
AssembleChunks(session_data, total_chunks) ==
  IF Cardinality(DOMAIN session_data) # total_chunks
  THEN [kind |-> "return", value |-> None]
  ELSE IF \E i \in 0..(total_chunks - 1) : ~Has(session_data, i)
  THEN [kind |-> "raise", value |-> None]
  ELSE [kind |-> "return",
        value |-> text_to_bytes(Join(AsSeq([k \in 1..total_chunks |-> session_data[k - 1]])))]

\* an assembly that takes the number of chunks held for the total
assemble_session_dataHeld(store, metadata, session_id) ==
  IF ~Has(metadata, session_id) THEN [kind |-> "return", value |-> None]
  ELSE AssembleChunks(IF Has(store, session_id) THEN store[session_id] ELSE EmptyDict,
                      IF Has(store, session_id) THEN Cardinality(DOMAIN store[session_id])
                      ELSE 0)

\* DNSTunnelServer._assemble_session_data on the server's dicts
assemble_session_data(store, metadata, session_id) ==
  IF ~Has(metadata, session_id) THEN [kind |-> "return", value |-> None]
  ELSE AssembleChunks(IF Has(store, session_id) THEN store[session_id] ELSE EmptyDict,
                      metadata[session_id][1])

\* the domain the server is configured with: "example.com"
ServerDomain == <<101, 120, 97, 109, 112, 108, 101, 46, 99, 111, 109>>

\* "self.sessions[session_id][chunk_num] = chunk_data", keeping the text
\* already stored at the index
StoreChunkKeepFirst(store, session_id, chunk_num, chunk_data) ==
  LET old == IF Has(store, session_id) THEN store[session_id] ELSE EmptyDict IN
  Put(store, session_id, IF Has(old, chunk_num) THEN old ELSE Put(old, chunk_num, chunk_data))

\* self.sessions[session_id][chunk_num] = chunk_data
StoreChunk(store, session_id, chunk_num, chunk_data) ==
  LET old == IF Has(store, session_id) THEN store[session_id] ELSE EmptyDict IN
  Put(store, session_id, Put(old, chunk_num, chunk_data))

\* the clean-up test of the poll path, true for every served chunk
IsLastChunkAlways(chunk_num, chunks) == chunk_num >= 0

\* "if chunk_num >= len(chunks) - 1" of the poll path
IsLastChunk(chunk_num, chunks) == chunk_num >= Len(chunks) - 1

\* what one run of the handler leaves behind: its locals parsed and decoded,
\* the store, the callbacks and queue_response calls made, the datagrams sent
Outcome(parsed, decoded, store, metadata, queue, calls, queued_calls, out, raised) ==
  [parsed |-> parsed, decoded |-> decoded,
   sessions |-> store, session_metadata |-> metadata, response_queue |-> queue,
   callbacks |-> calls, queued |-> queued_calls, sent |-> out, fault |-> raised]

\* a poll path that answers only when it has a chunk to serve
ServePollSilent(parsed, decoded, plain, addr) ==
  IF Has(response_queue, decoded[1][1])
       /\ decoded[1][2] < Len(response_queue[decoded[1][1]])
  THEN Outcome(parsed, decoded, sessions, session_metadata,
               IF IsLastChunk(decoded[1][2], response_queue[decoded[1][1]])
               THEN Del(response_queue, decoded[1][1]) ELSE response_queue,
               <<>>, <<>>,
               <<<<create_dns_response(parsed[1][1], parsed[1][2], parsed[1][3],
                                       Some(response_queue[decoded[1][1]][decoded[1][2] + 1])),
                   addr>>>>,
               FALSE)
  ELSE Outcome(parsed, decoded, sessions, session_metadata, response_queue,
               <<>>, <<>>, <<>>, FALSE)

\* the poll path of _handle_query: the chunk at chunk_num of the queued
\* response, removed with the last chunk, or the plain reply
ServePoll(parsed, decoded, plain, addr) ==
  LET session_id == decoded[1][1]
      chunk_num == decoded[1][2]
  IN IF Has(response_queue, session_id) /\ chunk_num < Len(response_queue[session_id])
     THEN Outcome(parsed, decoded, sessions, session_metadata,
                  IF IsLastChunk(chunk_num, response_queue[session_id])
                  THEN Del(response_queue, session_id) ELSE response_queue,
                  <<>>, <<>>,
                  <<<<create_dns_response(parsed[1][1], parsed[1][2], parsed[1][3],
                                          Some(response_queue[session_id][chunk_num + 1])),
                      addr>>>>,
                  FALSE)
     ELSE Outcome(parsed, decoded, sessions, session_metadata, response_queue,
                  <<>>, <<>>, <<plain>>, FALSE)

\* what react is when the registered callback ends in an exception
Raised == <<<<>>, <<>>>>

\* the end of the upload path: assembled is the outcome of
\* _assemble_session_data on the store after the chunk was stored; an
\* exception of the callback (line 408) leaves the handler before lines
\* 411-416
Deliver(parsed, decoded, plain, addr, react, stored, stamped, assembled) ==
  IF assembled.kind = "raise"
  THEN Outcome(parsed, decoded, stored, stamped, response_queue, <<>>, <<>>, <<>>, TRUE)
  ELSE IF assembled.value # None /\ assembled.value[1] # <<>> /\ react = Raised
  THEN Outcome(parsed, decoded, stored, stamped, response_queue,
               <<<<decoded[1][1], assembled.value[1], addr>>>>, <<>>, <<>>, TRUE)
  ELSE IF assembled.value # None /\ assembled.value[1] # <<>>
  THEN Outcome(parsed, decoded, Del(stored, decoded[1][1]), Del(stamped, decoded[1][1]),
               IF react = None THEN response_queue
               ELSE queue_response(response_queue, decoded[1][1], react[1]),
               <<<<decoded[1][1], assembled.value[1], addr>>>>,
               IF react = None THEN <<>> ELSE <<<<decoded[1][1], react[1]>>>>,
               <<plain>>, FALSE)
  ELSE Outcome(parsed, decoded, stored, stamped, response_queue, <<>>, <<>>, <<plain>>, FALSE)

\* "complete_data = self._assemble_session_data(session_id)" on the store
\* with the chunk in it
AssembleStored(parsed, decoded, plain, addr, react, stored, stamped) ==
  Deliver(parsed, decoded, plain, addr, react, stored, stamped,
          assemble_session_data(stored, stamped, decoded[1][1]))

\* an upload path that keeps the total a session already declares
HandleUploadKeepingTotal(parsed, decoded, plain, addr, react) ==
  AssembleStored(parsed, decoded, plain, addr, react,
                 StoreChunk(sessions, decoded[1][1], decoded[1][2], decoded[1][4]),
                 Put(session_metadata, decoded[1][1],
                     <<IF Has(session_metadata, decoded[1][1])
                       THEN session_metadata[decoded[1][1]][1] ELSE decoded[1][3],
                       now>>))

\* the upload path of _handle_query: store the chunk, stamp the metadata
HandleUpload(parsed, decoded, plain, addr, react) ==
  AssembleStored(parsed, decoded, plain, addr, react,
                 StoreChunk(sessions, decoded[1][1], decoded[1][2], decoded[1][4]),
                 Put(session_metadata, decoded[1][1], <<decoded[1][3], now>>))

\* a handler that drops what _decode_subdomain rejects
HandleDecodedDropping(parsed, decoded, plain, addr, react) ==
  IF decoded = None
  THEN Outcome(parsed, None, sessions, session_metadata, response_queue,
               <<>>, <<>>, <<>>, FALSE)
  ELSE IF decoded[1][4] = RECV THEN ServePoll(parsed, decoded, plain, addr)
  ELSE HandleUpload(parsed, decoded, plain, addr, react)

\* _handle_query after _decode_subdomain; plain is the reply without text
HandleDecoded(parsed, decoded, plain, addr, react) ==
  IF decoded = None
  THEN Outcome(parsed, None, sessions, session_metadata, response_queue,
               <<>>, <<>>, <<plain>>, FALSE)
  ELSE IF decoded[1][4] = RECV THEN ServePoll(parsed, decoded, plain, addr)
  ELSE HandleUpload(parsed, decoded, plain, addr, react)

\* _handle_query after _parse_dns_query
HandleParsed(parsed, addr, react) ==
  IF parsed = None
  THEN Outcome(None, None, sessions, session_metadata, response_queue,
               <<>>, <<>>, <<>>, FALSE)
  ELSE HandleDecoded(parsed, decode_subdomain(parsed[1][2], ServerDomain),
                     <<create_dns_response(parsed[1][1], parsed[1][2], parsed[1][3], None),
                       addr>>,
                     addr, react)

\* DNSTunnelServer._handle_query run as one uninterrupted handler.  react is
\* what the registered callback does with a delivered payload: None,
\* Some(reply) for a call of queue_response(session_id, reply), or Raised.
handle_query(data, addr, react) == HandleParsed(parse_dns_query(data), addr, react)

(***************************************************************************)
(* Client-side framing used to build the server's inputs.                  *)
(***************************************************************************)
upload_chunk_size == 32

\* DNSTunnelClient._encode_data
encode_data(data) == slice(bytes_to_text(data), upload_chunk_size)

\* f"{self.session_id}-{i}-{total_chunks}-{chunk}" of DNSTunnelClient.send
UploadName(session_id, i, total_chunks, chunk) ==
  IntToStr(session_id) \o <<ChHyphen>> \o IntToStr(i) \o <<ChHyphen>>
    \o IntToStr(total_chunks) \o <<ChHyphen>> \o chunk

\* f"recv-{self.session_id}-{chunk_num}" of DNSTunnelClient._receive_chunk
PollName(session_id, chunk_num) ==
  RecvPrefix \o IntToStr(session_id) \o <<ChHyphen>> \o IntToStr(chunk_num)

\* f"recv-{session_id}": a poll that names no chunk index
BarePollName(session_id) == RecvPrefix \o IntToStr(session_id)

(***************************************************************************)
(* Observation of the server: the last operation, and a reference poller   *)
(* that collects, per session, the bodies of the answers to the polls      *)
(* 0, 1, 2, ... issued since the last queue_response.                      *)
(***************************************************************************)
VARIABLES
  last,            \* the operation of the last step
  queued_payload,  \* session id -> payload of the last queue_response
  polled,          \* session id -> [bodies, total] collected by the poller
  overwritten      \* session id -> indices whose stored text was replaced

\* op is "init", "query", "queue" or "sweep"; parsed and decoded are the
\* handler's locals of a query and data its datagram; session_id and data
\* are the arguments of a queue_response
LastOp(op, parsed, decoded, session_id, data) ==
  [op |-> op, parsed |-> parsed, decoded |-> decoded,
   session_id |-> session_id, data |-> data]

LastIsPoll == last.op = "query" /\ last.decoded # None /\ last.decoded[1][4] = RECV
LastIsUpload == last.op = "query" /\ last.decoded # None /\ last.decoded[1][4] # RECV

\* the text the client's wire decoder finds in the datagrams a handler sent
ReplyText(out) == IF Len(out) = 1 THEN parse_dns_response(out[1][1]) ELSE None

\* an answer text without a chunk header
Unframed(text) == [framed |-> FALSE, index |-> 0, total |-> 1, body |-> text]

FrameFields(text, body, index, total) ==
  IF index = None \/ total = None THEN Unframed(text)
  ELSE [framed |-> TRUE, index |-> index[1], total |-> total[1], body |-> body]

FrameNums(text, body, nums) ==
  IF Len(nums) # 2 THEN Unframed(text)
  ELSE FrameFields(text, body, ParseInt(nums[1]), ParseInt(nums[2]))

FrameParts(text, parts) ==
  IF StartsWith(text, ChunkPrefix) /\ Len(parts) = 3
  THEN FrameNums(text, parts[3], Split(parts[2], ChSlash, -1))
  ELSE Unframed(text)

\* the fields of an answer text: "CHUNK:{index}/{total}:{body}", or unframed
FrameOf(text) == FrameParts(text, Split(text, ChColon, 2))

\* the poller's record after the queue_response calls of a step
RECURSIVE ResetPolled(_, _)
ResetPolled(rec, queued_calls) ==
  IF queued_calls = <<>> THEN rec
  ELSE ResetPolled(Put(rec, queued_calls[1][1], [bodies |-> <<>>, total |-> 0]),
                   Tail(queued_calls))

\* the payloads of the queue_response calls of a step
RECURSIVE RecordQueued(_, _)
RecordQueued(rec, queued_calls) ==
  IF queued_calls = <<>> THEN rec
  ELSE RecordQueued(Put(rec, queued_calls[1][1], queued_calls[1][2]), Tail(queued_calls))

\* the poller appends the body of the frame answered to a poll for index
AppendBody(rec, s, index, frame, sofar) ==
  IF index = Len(sofar) /\ frame.index = Len(sofar)
  THEN Put(rec, s, [bodies |-> Append(sofar, frame.body), total |-> frame.total])
  ELSE rec

ObserveText(rec, decoded, text) ==
  IF text = None \/ text[1] = <<>> THEN rec
  ELSE AppendBody(rec, decoded[1][1], decoded[1][2], FrameOf(text[1]),
                  IF Has(rec, decoded[1][1]) THEN rec[decoded[1][1]].bodies ELSE <<>>)

\* the poller's record after a handler run: a text-record poll for the next
\* index of its session whose answer carries that index appends the body
ObservePoll(rec, parsed, decoded, out) ==
  IF decoded = None \/ decoded[1][4] # RECV \/ parsed[1][3] # TYPE_TXT THEN rec
  ELSE ObserveText(rec, decoded, ReplyText(out))

\* the indices of a session whose text an upload replaced by a different
\* text, counted from the first chunk stored after the session was created
ObserveOverwrite(rec, store, decoded) ==
  IF decoded = None \/ decoded[1][4] = RECV THEN rec
  ELSE LET s == decoded[1][1]
           i == decoded[1][2]
       IN IF ~Has(store, s) THEN Put(rec, s, {})
          ELSE IF Has(store[s], i) /\ store[s][i] # decoded[1][4]
          THEN Put(rec, s, (IF Has(rec, s) THEN rec[s] ELSE {}) \cup {i})
          ELSE rec

(***************************************************************************)
(* Inputs of the server specification.                                     *)
(***************************************************************************)
SessionId == 4242
ClientAddr == "192.0.2.7:40000"
UploadTid == 4660
PollTid == 513

MaxPollIndex == 3

\* n bytes, the i-th being (k + 37 i) mod 256
Pattern(n, k) == AsSeq([i \in 1..n |-> (k + 37 * i) % 256])

\* b"hi"
PayloadHi == <<104, 105>>
\* two payloads of two upload chunks that differ in the first chunk only
PayloadA == Pattern(21, 3)
PayloadB == [Pattern(21, 3) EXCEPT ![1] = 200]
UploadPayloads == {PayloadHi, PayloadA, PayloadB}

\* b"ok", and payloads of two and of three answer chunks
PayloadOk == <<111, 107>>
PayloadTwo == Pattern(101, 9)
PayloadThree == Pattern(201, 11)
\* the longest payload whose text fits one unframed answer
PayloadFull == Pattern(100, 5)
ReplyPayloads == {PayloadFull, PayloadTwo, PayloadThree}
Reactions == {None, Some(PayloadOk)}

\* the datagrams DNSTunnelClient.send builds for a payload
UploadDatagramsOf(session_id, payload, domain) ==
  LET chunks == encode_data(payload) IN
  {create_dns_query(UploadName(session_id, i - 1, Len(chunks), chunks[i]),
                    domain, TYPE_A, UploadTid) : i \in 1..Len(chunks)}

UploadDatagrams ==
  UNION {UploadDatagramsOf(SessionId, payload, ServerDomain) : payload \in UploadPayloads}

\* the polls of DNSTunnelClient._receive_chunk, and one asked with the
\* address-record type
PollDatagrams ==
  {create_dns_query(PollName(SessionId, n), ServerDomain, TYPE_TXT, PollTid) :
     n \in 0..MaxPollIndex}
  \cup {create_dns_query(PollName(SessionId, 1), ServerDomain, TYPE_A, PollTid),
        create_dns_query(BarePollName(SessionId), ServerDomain, TYPE_TXT, PollTid)}

\* "other.org", and "xexample.com": the server's domain behind one more letter
OtherDomain == <<111, 116, 104, 101, 114, 46, 111, 114, 103>>
LookalikeDomain == <<120>> \o ServerDomain
TYPE_AAAA == 28

\* queries whose name is not below the server's domain
ForeignDatagrams ==
  UploadDatagramsOf(SessionId, PayloadHi, OtherDomain)
  \cup UploadDatagramsOf(SessionId, PayloadHi, LookalikeDomain)
  \cup {create_dns_query(PollName(SessionId, 0), OtherDomain, TYPE_TXT, PollTid),
        create_dns_query(<<119, 119, 119>>, OtherDomain, TYPE_AAAA, PollTid)}

\* "nbuq", the text of b"hi", and "1", a character outside the alphabet
TextHi == <<110, 98, 117, 113>>
TextOne == <<49>>

\* upload chunks no client sends: an index at or beyond the declared total,
\* and a text that does not decode
OddUploadDatagrams ==
  {create_dns_query(UploadName(SessionId, 1, 1, TextHi), ServerDomain, TYPE_A, UploadTid),
   create_dns_query(UploadName(SessionId, 2, 2, TextHi), ServerDomain, TYPE_TXT, UploadTid),
   create_dns_query(UploadName(SessionId, 0, 1, TextOne), ServerDomain, TYPE_A, UploadTid)}

\* the header of a query with one question
QueryHeader == PackU16(UploadTid) \o PackU16(256) \o PackU16(1) \o PackU16(0)
                 \o PackU16(0) \o PackU16(0)

\* a label of n letters "a"
LongLabel(n) == AsSeq([i \in 1..n |-> 97])

\* datagrams that are no well-formed query: cut inside the header, cut
\* inside the name, without the terminator of the name, without type and
\* class, with a label length of 64, with a label length that runs past
\* the end of the datagram
MalformedDatagrams ==
  {Slice(QueryHeader, 0, 5),
   Slice(create_dns_query(PollName(SessionId, 0), ServerDomain, TYPE_TXT, PollTid), 0, 20),
   QueryHeader \o PackLabels(Split(PollName(SessionId, 0) \o <<ChDot>> \o ServerDomain,
                                   ChDot, -1)),
   QueryHeader \o PackLabels(Split(PollName(SessionId, 0) \o <<ChDot>> \o ServerDomain,
                                   ChDot, -1)) \o <<0>>,
   create_dns_query(LongLabel(64), ServerDomain, TYPE_A, UploadTid),
   QueryHeader \o <<200>> \o LongLabel(10) \o <<0>> \o PackU16(TYPE_A) \o PackU16(1)}

\* "hello", "4242-0-1", "4242-0-x-nbuq", "4242-zero-1-nbuq"
ShapelessNames ==
  {<<104, 101, 108, 108, 111>>,
   IntToStr(SessionId) \o <<ChHyphen, 48, ChHyphen, 49>>,
   IntToStr(SessionId) \o <<ChHyphen, 48, ChHyphen, 120, ChHyphen>> \o TextHi,
   IntToStr(SessionId) \o <<ChHyphen, 122, 101, 114, 111, ChHyphen, 49, ChHyphen>> \o TextHi}

\* queries under the server's domain whose subdomain is neither a poll
\* nor an upload chunk
ShapelessDatagrams ==
  {create_dns_query(name, ServerDomain, TYPE_A, UploadTid) : name \in ShapelessNames}
  \cup {create_dns_query(<<104, 101, 108, 108, 111>>, ServerDomain, TYPE_TXT, PollTid)}

Datagrams == UploadDatagrams \cup PollDatagrams \cup ForeignDatagrams

\* the datagrams of two regular uploads and a poll, and the irregular ones
UnusualDatagrams ==
  UploadDatagramsOf(SessionId, PayloadHi, ServerDomain)
  \cup UploadDatagramsOf(SessionId, PayloadA, ServerDomain)
  \cup {create_dns_query(PollName(SessionId, 0), ServerDomain, TYPE_TXT, PollTid)}
  \cup OddUploadDatagrams \cup MalformedDatagrams \cup ShapelessDatagrams

\* the callback can only react to a datagram that stores an upload chunk
ReactionsFor(decoded) ==
  IF decoded = None \/ decoded[1][4] = RECV THEN {None} ELSE Reactions

ReactionsParsed(parsed) ==
  ReactionsFor(IF parsed = None THEN None ELSE decode_subdomain(parsed[1][2], ServerDomain))

ReactionsTo(data) == ReactionsParsed(parse_dns_query(data))

(***************************************************************************)
(* State of the scenarios: an upload whose datagrams arrive in any order,  *)
(* handler threads, a client, the sweep of src/server.py.                  *)
(***************************************************************************)
VARIABLES
  upload,     \* the payload the scenario's client uploads
  pending,    \* the datagrams of the upload the server has not handled yet
  arrived,    \* the chunk indices in the order the server handled them
  delivered,  \* every on_data_received call made so far
  threads,    \* handler threads: thread -> position and locals
  client,     \* the client's running operation and its locals
  sweep,      \* the position and locals of _cleanup_old_sessions
  activity    \* when each session was last uploaded to, queued for, swept

scenarioVars == <<upload, pending, arrived, delivered>>
otherVars == <<threads, client, sweep, activity>>

InitScenario == upload = <<>> /\ pending = {} /\ arrived = <<>> /\ delivered = <<>>
InitOther == threads = <<>> /\ client = <<>> /\ sweep = <<>> /\ activity = <<>>

serverVars == <<sessions, session_metadata, response_queue, now, callbacks, sent, fault>>
observerVars == <<last, queued_payload, polled, overwritten>>

InitServer ==
  /\ sessions = EmptyDict
  /\ session_metadata = EmptyDict
  /\ response_queue = EmptyDict
  /\ now = 0
  /\ callbacks = <<>>
  /\ sent = <<>>
  /\ fault = FALSE

InitObserver ==
  /\ last = LastOp("init", None, None, 0, <<>>)
  /\ queued_payload = EmptyDict
  /\ polled = EmptyDict
  /\ overwritten = EmptyDict

\* the server handles one datagram
HandleQuery(data, addr, react) ==
  \E o \in {handle_query(data, addr, react)} :
  /\ sessions' = o.sessions
  /\ session_metadata' = o.session_metadata
  /\ response_queue' = o.response_queue
  /\ callbacks' = o.callbacks
  /\ sent' = o.sent
  /\ fault' = o.fault
  /\ now' = now
  /\ last' = LastOp("query", o.parsed, o.decoded, 0, data)
  /\ queued_payload' = RecordQueued(queued_payload, o.queued)
  /\ polled' = ObservePoll(ResetPolled(polled, o.queued), o.parsed, o.decoded, o.sent)
  /\ overwritten' = ObserveOverwrite(overwritten, sessions, o.decoded)

\* the consumer calls queue_response outside a callback
QueueResponse(session_id, data) ==
  /\ response_queue' = queue_response(response_queue, session_id, data)
  /\ callbacks' = <<>>
  /\ sent' = <<>>
  /\ fault' = FALSE
  /\ last' = LastOp("queue", None, None, session_id, data)
  /\ queued_payload' = Put(queued_payload, session_id, data)
  /\ polled' = Put(polled, session_id, [bodies |-> <<>>, total |-> 0])
  /\ UNCHANGED <<sessions, session_metadata, now, overwritten>>

Receive ==
  /\ \E data \in Datagrams :
       \E react \in ReactionsTo(data) : HandleQuery(data, ClientAddr, react)
  /\ UNCHANGED <<scenarioVars, otherVars>>

Queue ==
  /\ \E data \in ReplyPayloads : QueueResponse(SessionId, data)
  /\ UNCHANGED <<scenarioVars, otherVars>>

\* the server handles a datagram that may be irregular
ReceiveUnusual ==
  /\ \E data \in UnusualDatagrams :
       \E react \in ReactionsTo(data) : HandleQuery(data, ClientAddr, react)
  /\ UNCHANGED <<scenarioVars, otherVars>>

vars == <<serverVars, observerVars, scenarioVars, otherVars>>

Init == InitServer /\ InitObserver /\ InitScenario /\ InitOther
Next == Receive \/ Queue
Spec == Init /\ [][Next]_vars

SpecUnusual == Init /\ [][ReceiveUnusual]_vars

(***************************************************************************)
(* Properties of the server under Spec.                                    *)
(***************************************************************************)
\* C3: after queue_response stored a response of two or more chunks, the
\* bodies of the answers to the polls 0..total-1, taken after each
\* "CHUNK:{i}/{total}:" header and joined in poll order, decode to the
\* queued payload
C3_DownloadRoundTrips ==
  \A s \in DOMAIN polled :
    (polled[s].total >= 2 /\ Len(polled[s].bodies) = polled[s].total)
      => text_to_bytes(Join(polled[s].bodies)) = Some(queued_payload[s])

\* a response of three chunks was polled to its end
C3_Witness ==
  /\ Has(polled, SessionId)
  /\ polled[SessionId].total = 3
  /\ Len(polled[SessionId].bodies) = 3
  /\ queued_payload[SessionId] = PayloadThree
  /\ ~Has(response_queue, SessionId)

\* C6: an upload chunk for an index that already holds a different text
\* replaces that text and adds no index, and a completed upload delivers the
\* decode of the texts stored last
C6_DuplicateIndexOverwrites ==
  [][(last'.op = "query" /\ last'.decoded # None /\ last'.decoded[1][4] # RECV /\ ~fault')
       => LET s == last'.decoded[1][1]
              i == last'.decoded[1][2]
              text == last'.decoded[1][4]
              before == IF Has(sessions, s) THEN sessions[s] ELSE EmptyDict
              latest == [j \in (DOMAIN before) \cup {i} |-> IF j = i THEN text ELSE before[j]]
          IN IF callbacks' = <<>>
             THEN /\ Has(sessions', s)
                  /\ sessions'[s] = latest
                  /\ (Has(before, i) => DOMAIN sessions'[s] = DOMAIN before)
             ELSE /\ ~Has(sessions', s)
                  /\ DOMAIN latest = 0..(Cardinality(DOMAIN latest) - 1)
                  /\ Some(callbacks'[1][2])
                       = text_to_bytes(Join(AsSeq([k \in 1..Cardinality(DOMAIN latest) |->
                                                     latest[k - 1]])))]_vars

\* index 0 of the session was overwritten with a different text and the
\* upload then completed with the later text
C6_Witness ==
  /\ Has(overwritten, SessionId)
  /\ 0 \in overwritten[SessionId]
  /\ callbacks # <<>>
  /\ callbacks[1][2] \in {PayloadA, PayloadB}

\* the record type of the answer section of a response datagram whose
\* question name ends at the first zero byte after the header
AnswerType(response) ==
  LET q_end == SkipName(response, 12) IN
  IF q_end < 0 \/ Len(response) < q_end + 9 THEN None
  ELSE Some(UnpackU16(Slice(response, q_end + 7, q_end + 9)))

\* exactly one reply, to the sender, of the query's type and without text
ContentLessReply(out, parsed, addr) ==
  /\ Len(out) = 1
  /\ out[1][2] = addr
  /\ UnpackU16(Slice(out[1][1], 0, 2)) = parsed[1][1]
  /\ AnswerType(out[1][1]) = Some(parsed[1][3])
  /\ parse_dns_response(out[1][1]) \in {None, Some(<<>>)}

\* C7: a parseable query whose name does not end with "." and the domain
\* changes no stored chunk, metadata or queued response and gets exactly one
\* content-less reply of its type
C7_UnmatchedDomainIsInert ==
  [][(last'.op = "query" /\ last'.parsed # None
        /\ ~EndsWith(last'.parsed[1][2], <<ChDot>> \o ServerDomain))
       => /\ sessions' = sessions
          /\ session_metadata' = session_metadata
          /\ response_queue' = response_queue
          /\ ContentLessReply(sent', last'.parsed, ClientAddr)]_vars

\* C10: for a queued response of n >= 2 chunks, a poll for an index below
\* n-1 leaves the queue as it is and, asked with the text-record type, is
\* answered with the chunk at that index; the entry is removed by a poll for
\* index n-1 and by nothing else
C10_PollKeepsQueueUntilLastIndex ==
  [][\A s \in DOMAIN response_queue :
       LET chunks == response_queue[s]
           polls == last'.op = "query" /\ last'.decoded # None
                      /\ last'.decoded[1][4] = RECV /\ last'.decoded[1][1] = s
           index == last'.decoded[1][2]
       IN Len(chunks) >= 2 =>
            /\ (polls /\ index < Len(chunks) - 1)
                 => /\ response_queue' = response_queue
                    /\ last'.parsed[1][3] = TYPE_TXT => ReplyText(sent') = Some(chunks[index + 1])
            /\ (polls /\ index = Len(chunks) - 1) => ~Has(response_queue', s)
            /\ ~Has(response_queue', s) => (polls /\ index = Len(chunks) - 1)]_vars

\* a poll for index 1 of a three-chunk response was answered with chunk 1
\* and the three chunks are still queued
C10_Witness ==
  /\ LastIsPoll
  /\ last.decoded[1][1] = SessionId
  /\ last.decoded[1][2] = 1
  /\ last.parsed[1][3] = TYPE_TXT
  /\ Has(response_queue, SessionId)
  /\ Len(response_queue[SessionId]) = 3
  /\ ReplyText(sent) = Some(response_queue[SessionId][2])

\* the last step handled a text-record poll named recv-{SessionId}
BarePolled(op) ==
  /\ op.op = "query"
  /\ op.parsed # None
  /\ op.parsed[1][2] = BarePollName(SessionId) \o <<ChDot>> \o ServerDomain
  /\ op.parsed[1][3] = TYPE_TXT

\* C11: a text-record poll named recv-{session}, without an index, for a
\* session with one unframed chunk queued is answered with the text of the
\* queued payload and removes the entry; such a poll for a session with
\* nothing queued gets exactly one content-less reply; neither changes the
\* upload state
C11_BarePollTakesSoleChunk ==
  [][BarePolled(last')
       => /\ sessions' = sessions
          /\ session_metadata' = session_metadata
          /\ ~fault'
          /\ (Has(response_queue, SessionId) /\ Len(response_queue[SessionId]) = 1)
               => /\ Len(sent') = 1
                  /\ ReplyText(sent') = Some(bytes_to_text(queued_payload[SessionId]))
                  /\ ~Has(response_queue', SessionId)
          /\ ~Has(response_queue, SessionId)
               => /\ ContentLessReply(sent', last'.parsed, ClientAddr)
                  /\ response_queue' = response_queue]_vars

\* the poll without an index took the unframed text of a payload of 100
\* bytes
C11_Witness ==
  /\ BarePolled(last)
  /\ Has(queued_payload, SessionId)
  /\ queued_payload[SessionId] = PayloadFull
  /\ ReplyText(sent) = Some(bytes_to_text(PayloadFull))
  /\ ~Has(response_queue, SessionId)

\* a response datagram without its transaction id and its question name:
\* flags and counts, and everything from the end of the question name on
ReplyShape(response) ==
  <<Slice(response, 2, 12), Slice(response, SkipName(response, 12), Len(response))>>

\* the shape of a reply without text to a query of query_type: a response
\* without error, one question, one answer; the answer is a pointer to the
\* name, type, class 1, TTL 300 and the loopback address for an address
\* record, one empty string for a text record
ContentLessShape(query_type) ==
  <<<<129, 128, 0, 1, 0, 1, 0, 0, 0, 0>>,
    <<0>> \o PackU16(query_type) \o <<0, 1, 192, 12>> \o PackU16(query_type)
      \o <<0, 1, 0, 0, 1, 44>>
      \o (IF query_type = TYPE_TXT THEN <<0, 1, 0>> ELSE <<0, 4, 127, 0, 0, 1>>)>>

\* C12: a poll for a session with nothing queued (never queued, or fully
\* delivered) or for an index at or beyond the number of queued chunks gets
\* exactly one content-less reply, the same bytes in all these cases but
\* for the transaction id and the name, and changes nothing in the server
C12_EmptyPollIsInert ==
  [][(/\ last'.op = "query" /\ last'.decoded # None /\ last'.decoded[1][4] = RECV
      /\ (Has(response_queue, last'.decoded[1][1])
            => last'.decoded[1][2] >= Len(response_queue[last'.decoded[1][1]])))
       => /\ ContentLessReply(sent', last'.parsed, ClientAddr)
          /\ ReplyShape(sent'[1][1]) = ContentLessShape(last'.parsed[1][3])
          /\ sessions' = sessions
          /\ session_metadata' = session_metadata
          /\ response_queue' = response_queue
          /\ callbacks' = <<>>
          /\ ~fault']_vars

\* a text-record poll for an index beyond the chunks of a queued response
\* got the content-less reply and the response is still queued
C12_Witness ==
  /\ LastIsPoll
  /\ last.parsed[1][3] = TYPE_TXT
  /\ Has(response_queue, last.decoded[1][1])
  /\ last.decoded[1][2] >= Len(response_queue[last.decoded[1][1]])
  /\ Len(response_queue[last.decoded[1][1]]) >= 2
  /\ ReplyShape(sent[1][1]) = ContentLessShape(TYPE_TXT)

\* characters [160 i, 160 (i + 1)) of a text
Stretch160(text, i) ==
  SubSeq(text, 160 * i + 1, IF 160 * (i + 1) <= Len(text) THEN 160 * (i + 1) ELSE Len(text))

\* what queue_response is to store for a text: the text itself up to 160
\* characters, else ceil(len / 160) chunks "CHUNK:{i}/{total}:" + stretch i
ChunksClaimed(text, total) ==
  IF Len(text) <= 160 THEN <<text>>
  ELSE AsSeq([k \in 1..total |->
                <<67, 72, 85, 78, 75, 58>> \o IntToStr(k - 1) \o <<47>> \o IntToStr(total)
                  \o <<58>> \o Stretch160(text, k - 1)])

\* C24: after queue_response(s, data) the queue of s holds the encoded text
\* as one chunk without a header if the text has at most 160 characters,
\* and otherwise ceil(len / 160) >= 2 chunks in index order, chunk i being
\* "CHUNK:{i}/{total}:" followed by characters [160 i, 160 (i + 1)) of the
\* text, none of them empty
C24_QueueResponseChunks ==
  last.op = "queue" =>
    /\ Has(response_queue, last.session_id)
    /\ response_queue[last.session_id] =
         ChunksClaimed(bytes_to_text(last.data), (Len(bytes_to_text(last.data)) + 159) \div 160)
    /\ Len(bytes_to_text(last.data)) > 160 =>
         /\ Len(response_queue[last.session_id]) >= 2
         /\ \A k \in 1..Len(response_queue[last.session_id]) :
              Stretch160(bytes_to_text(last.data), k - 1) # <<>>

\* a payload of 201 bytes was queued as three chunks, and one of 100 bytes,
\* whose text has exactly 160 characters, is what the poller last saw queued
C24_Witness ==
  /\ last.op = "queue" /\ last.data = PayloadThree
  /\ Len(response_queue[SessionId]) = 3
  /\ Len(bytes_to_text(PayloadFull)) = 160

\* the datagrams a handler sent are one text record with the given text
CarriesText(out, text) ==
  /\ Len(out) = 1
  /\ AnswerType(out[1][1]) = Some(TYPE_TXT)
  /\ ReplyText(out) = Some(text)

\* C33: a handler removes the queued response of a session only when it
\* handled a poll for an index queued and its reply is a text record with
\* the text of the chunk at that index
C33_RemovedOnlyBySentChunk ==
  [][(/\ last'.op = "query"
      /\ Has(response_queue, SessionId)
      /\ ~Has(response_queue', SessionId))
       => /\ LastIsPoll'
          /\ last'.decoded[1][2] < Len(response_queue[SessionId])
          /\ CarriesText(sent', response_queue[SessionId][last'.decoded[1][2] + 1])]_vars

(***************************************************************************)
(* Properties of the server under SpecUnusual.                             *)
(***************************************************************************)
\* C13: the handler of a datagram that decodes as an upload chunk under the
\* server's domain sent exactly one content-less reply of the query's type
C13_UploadAlwaysAcknowledged ==
  LastIsUpload => ContentLessReply(sent, last.parsed, ClientAddr)

\* C14: the handler of a truncated datagram, of one with a label length
\* over 63 and of one whose label runs past the end sends nothing, changes
\* nothing and ends without a fault
C14_MalformedIsDropped ==
  [][(last'.op = "query" /\ last'.data \in MalformedDatagrams)
       => /\ sent' = <<>>
          /\ ~fault'
          /\ callbacks' = <<>>
          /\ sessions' = sessions
          /\ session_metadata' = session_metadata
          /\ response_queue' = response_queue]_vars

\* C15 as stated: the handler of a query under the server's domain whose
\* subdomain is neither a poll nor an upload chunk sends no reply and
\* changes no state
C15_ShapelessIsDropped ==
  [][(last'.op = "query" /\ last'.data \in ShapelessDatagrams)
       => /\ sent' = <<>>
          /\ sessions' = sessions
          /\ session_metadata' = session_metadata
          /\ response_queue' = response_queue]_vars

\* C15 amended: the handler of such a query sends exactly one content-less
\* reply of the query's type and changes no state
C15_ShapelessIsAnsweredEmpty ==
  [][(last'.op = "query" /\ last'.data \in ShapelessDatagrams)
       => /\ ContentLessReply(sent', last'.parsed, ClientAddr)
          /\ ReplyShape(sent'[1][1]) = ContentLessShape(last'.parsed[1][3])
          /\ ~fault'
          /\ callbacks' = <<>>
          /\ sessions' = sessions
          /\ session_metadata' = session_metadata
          /\ response_queue' = response_queue]_vars

\* the query named "4242-0-x-nbuq" under the server's domain was answered
\* while a chunk of an upload was stored
C15_Witness ==
  /\ last.op = "query"
  /\ last.data \in ShapelessDatagrams
  /\ last.decoded = None
  /\ Len(Split(last.parsed[1][2], ChHyphen, -1)) = 4
  /\ ContentLessReply(sent, last.parsed, ClientAddr)
  /\ Has(sessions, SessionId)

\* the chunks of the session of upload chunk d once d is stored in them
HeldWith(d) == StoreChunk(sessions, d[1], d[2], d[4])[d[1]]

\* the payload the texts of the indices 0..total-1 decode to, None where
\* the joined text does not decode
HeldPayload(held, total_chunks) ==
  text_to_bytes(Join(AsSeq([k \in 1..total_chunks |-> held[k - 1]])))

\* the handler of upload chunk d, whose session then holds the chunks held,
\* delivers exactly if the indices held are 0..total-1 (and the texts
\* decode to a payload that is not empty), and it then delivers that
\* payload; otherwise it keeps the chunks
CompleteIffExact(d, held) ==
  IF DOMAIN held = 0..(d[3] - 1)
       /\ HeldPayload(held, d[3]) # None /\ HeldPayload(held, d[3])[1] # <<>>
  THEN callbacks' = <<<<d[1], HeldPayload(held, d[3])[1], ClientAddr>>>>
  ELSE /\ callbacks' = <<>>
       /\ Has(sessions', d[1]) /\ sessions'[d[1]] = held
       /\ Has(session_metadata', d[1]) /\ session_metadata'[d[1]][1] = d[3]

MaxUploadChunks == 5

\* a payload that DNSTunnelClient._encode_data cuts into n chunks
UploadOfChunks(n) == Pattern(20 * n - 3, n)
PermutedUploads == {UploadOfChunks(n) : n \in 1..MaxUploadChunks}

InitPermute ==
  /\ InitServer /\ InitObserver /\ InitOther
  /\ \E payload \in PermutedUploads :
       /\ upload = payload
       /\ pending = UploadDatagramsOf(SessionId, payload, ServerDomain)
  /\ arrived = <<>>
  /\ delivered = <<>>

\* the server handles one of the datagrams still under way
Arrive ==
  /\ \E data \in pending :
       /\ HandleQuery(data, ClientAddr, None)
       /\ pending' = pending \ {data}
  /\ arrived' = Append(arrived, last'.decoded[1][2])
  /\ delivered' = delivered \o callbacks'
  /\ UNCHANGED <<upload, otherVars>>

SpecPermute == InitPermute /\ [][Arrive]_vars

\* C1: whatever the order in which the N datagrams of an upload are handled,
\* no callback is made while an index is missing, and once all are handled
\* exactly one callback was made, with the decode of the chunk texts joined
\* in index order, which is the uploaded payload
C1_OrderIndependentReassembly ==
  /\ pending # {} => delivered = <<>>
  /\ pending = {} =>
       /\ Len(delivered) = 1
       /\ delivered[1][1] = SessionId
       /\ Some(delivered[1][2]) = text_to_bytes(Join(encode_data(upload)))
       /\ delivered[1][2] = upload
       /\ ~fault

\* three chunks arrived in the order 2, 0, 1 and the payload was delivered
C1_Witness ==
  /\ pending = {}
  /\ arrived = <<2, 0, 1>>
  /\ Len(delivered) = 1
  /\ delivered[1][2] = UploadOfChunks(3)

(***************************************************************************)
(* Handler threads of src/dnstunnel.py: _run starts one thread per         *)
(* datagram, the threads share the server's dicts without a lock, and a    *)
(* thread can be preempted between any two statements.  A position "Lnnn"  *)
(* is the statement at line nnn that the thread executes next.             *)
(***************************************************************************)
\* the thread _run starts for a datagram
NewThread(data, addr) ==
  [pc |-> "L360", data |-> data, addr |-> addr, parsed |-> None, decoded |-> None,
   total_chunks |-> 0, session_data |-> [ref |-> "none", frozen |-> EmptyDict],
   complete_data |-> None]

\* the threads with thread t at position pc
Goto(t, pc) == [threads EXCEPT ![t].pc = pc]

\* the session id of the chunk thread t handles
SessionOf(t) == threads[t].decoded[1][1]

\* the dict object the local session_data of thread t refers to: the one in
\* self.sessions, or one that "del self.sessions[session_id]" took out of it
SessionData(t) ==
  IF threads[t].session_data.ref = "live" THEN sessions[SessionOf(t)]
  ELSE threads[t].session_data.frozen

\* the threads after the dict of session s left self.sessions: the locals
\* that refer to it keep the object
Detached(s) ==
  [t \in DOMAIN threads |->
     IF threads[t].session_data.ref = "live" /\ SessionOf(t) = s
     THEN [threads[t] EXCEPT !.session_data = [ref |-> "detached", frozen |-> sessions[s]]]
     ELSE threads[t]]

\* thread t exists and is at position pc
At(t, pc) == t \in DOMAIN threads /\ threads[t].pc = pc

\* what no statement of the upload path touches
threadFrame ==
  <<response_queue, now, observerVars, upload, pending, arrived, client, sweep, activity>>

\* lines 360-372, local to the thread: a datagram that does not parse ends
\* the handler, a name that does not decode gets the plain reply; the
\* datagrams of this scenario are upload chunks
ThreadDecoded(t, parsed, decoded) ==
  [threads EXCEPT ![t].parsed = parsed, ![t].decoded = decoded,
                  ![t].pc = IF parsed = None THEN "done"
                            ELSE IF decoded = None THEN "L415" ELSE "L400"]

ThreadParsed(t, parsed) ==
  ThreadDecoded(t, parsed,
                IF parsed = None THEN None ELSE decode_subdomain(parsed[1][2], ServerDomain))

ThreadParse(t) ==
  /\ At(t, "L360")
  /\ threads' = ThreadParsed(t, parse_dns_query(threads[t].data))
  /\ UNCHANGED <<threadFrame, sessions, session_metadata, delivered, callbacks, sent, fault>>

\* line 400: self.sessions[session_id][chunk_num] = chunk_data
ThreadStore(t) ==
  /\ At(t, "L400")
  /\ sessions' = StoreChunk(sessions, SessionOf(t), threads[t].decoded[1][2],
                            threads[t].decoded[1][4])
  /\ threads' = Goto(t, "L401")
  /\ UNCHANGED <<threadFrame, session_metadata, delivered, callbacks, sent, fault>>

\* line 401: self.session_metadata[session_id] = (total_chunks, time.time())
ThreadStamp(t) ==
  /\ At(t, "L401")
  /\ session_metadata' = Put(session_metadata, SessionOf(t), <<threads[t].decoded[1][3], now>>)
  /\ threads' = Goto(t, "L442")
  /\ UNCHANGED <<threadFrame, sessions, delivered, callbacks, sent, fault>>

\* lines 442-443: if session_id not in self.session_metadata: return None
ThreadCheckMetadata(t) ==
  /\ At(t, "L442")
  /\ threads' = IF Has(session_metadata, SessionOf(t)) THEN Goto(t, "L444")
                ELSE [threads EXCEPT ![t].complete_data = None, ![t].pc = "L405"]
  /\ UNCHANGED <<threadFrame, sessions, session_metadata, delivered, callbacks, sent, fault>>

\* line 444: total_chunks, _ = self.session_metadata[session_id]; KeyError
\* ends the thread
ThreadReadTotal(t) ==
  /\ At(t, "L444")
  /\ IF Has(session_metadata, SessionOf(t))
     THEN /\ threads' = [threads EXCEPT ![t].total_chunks = session_metadata[SessionOf(t)][1],
                                         ![t].pc = "L445"]
          /\ fault' = fault
     ELSE /\ threads' = Goto(t, "dead")
          /\ fault' = TRUE
  /\ UNCHANGED <<threadFrame, sessions, session_metadata, delivered, callbacks, sent>>

\* line 445: session_data = self.sessions[session_id]; the defaultdict makes
\* an empty dict for a missing key
ThreadGetSessionData(t) ==
  /\ At(t, "L445")
  /\ sessions' = IF Has(sessions, SessionOf(t)) THEN sessions
                 ELSE Put(sessions, SessionOf(t), EmptyDict)
  /\ threads' = [threads EXCEPT ![t].session_data = [ref |-> "live", frozen |-> EmptyDict],
                                ![t].pc = "L446"]
  /\ UNCHANGED <<threadFrame, session_metadata, delivered, callbacks, sent, fault>>

\* lines 446-447: if len(session_data) != total_chunks: return None
ThreadCheckComplete(t) ==
  /\ At(t, "L446")
  /\ threads' = IF Cardinality(DOMAIN SessionData(t)) # threads[t].total_chunks
                THEN [threads EXCEPT ![t].complete_data = None, ![t].pc = "L405"]
                ELSE Goto(t, "L448")
  /\ UNCHANGED <<threadFrame, sessions, session_metadata, delivered, callbacks, sent, fault>>

\* the thread after the join and decode with the given outcome
ThreadJoined(t, assembled) ==
  IF assembled.kind = "raise" THEN Goto(t, "dead")
  ELSE [threads EXCEPT ![t].complete_data = assembled.value, ![t].pc = "L405"]

\* lines 448-454: the join over range(total_chunks), KeyError ends the
\* thread, and the decode
ThreadJoin(t) ==
  /\ At(t, "L448")
  /\ threads' = ThreadJoined(t, AssembleChunks(SessionData(t), threads[t].total_chunks))
  /\ fault' = (fault \/ threads'[t].pc = "dead")
  /\ UNCHANGED <<threadFrame, sessions, session_metadata, delivered, callbacks, sent>>

\* lines 405-407: if complete_data: if self.on_data_received:
ThreadTestComplete(t) ==
  /\ At(t, "L405")
  /\ threads' = IF threads[t].complete_data # None /\ threads[t].complete_data[1] # <<>>
                THEN Goto(t, "L408") ELSE Goto(t, "L415")
  /\ UNCHANGED <<threadFrame, sessions, session_metadata, delivered, callbacks, sent, fault>>

\* line 408: self.on_data_received(session_id, complete_data, addr)
ThreadCallback(t) ==
  /\ At(t, "L408")
  /\ callbacks' = <<<<SessionOf(t), threads[t].complete_data[1], threads[t].addr>>>>
  /\ delivered' = delivered \o callbacks'
  /\ threads' = Goto(t, "L411")
  /\ UNCHANGED <<threadFrame, sessions, session_metadata, sent, fault>>

\* line 411: del self.sessions[session_id]; KeyError ends the thread
ThreadDelSessions(t) ==
  /\ At(t, "L411")
  /\ IF Has(sessions, SessionOf(t))
     THEN /\ sessions' = Del(sessions, SessionOf(t))
          /\ threads' = [Detached(SessionOf(t)) EXCEPT ![t].pc = "L412"]
          /\ fault' = fault
     ELSE /\ threads' = Goto(t, "dead")
          /\ fault' = TRUE
          /\ sessions' = sessions
  /\ UNCHANGED <<threadFrame, session_metadata, delivered, callbacks, sent>>

\* line 412: del self.session_metadata[session_id]; KeyError ends the thread
ThreadDelMetadata(t) ==
  /\ At(t, "L412")
  /\ IF Has(session_metadata, SessionOf(t))
     THEN /\ session_metadata' = Del(session_metadata, SessionOf(t))
          /\ threads' = Goto(t, "L415")
          /\ fault' = fault
     ELSE /\ threads' = Goto(t, "dead")
          /\ fault' = TRUE
          /\ session_metadata' = session_metadata
  /\ UNCHANGED <<threadFrame, sessions, delivered, callbacks, sent>>

\* lines 415-416: the plain reply
ThreadReply(t) ==
  /\ At(t, "L415")
  /\ sent' = <<<<create_dns_response(threads[t].parsed[1][1], threads[t].parsed[1][2],
                                     threads[t].parsed[1][3], None),
                 threads[t].addr>>>>
  /\ threads' = Goto(t, "done")
  /\ UNCHANGED <<threadFrame, sessions, session_metadata, delivered, callbacks, fault>>

MaxThreads == 3

\* uploads of two to MaxThreads chunks
ConcurrentUploads == {PayloadA} \cup {UploadOfChunks(n) : n \in 3..MaxThreads}

\* one handler thread per datagram of the upload
ThreadsOf(chunks) ==
  [t \in 1..Len(chunks) |->
     NewThread(create_dns_query(UploadName(SessionId, t - 1, Len(chunks), chunks[t]),
                                ServerDomain, TYPE_A, UploadTid),
               ClientAddr)]

InitThreads ==
  /\ InitServer /\ InitObserver
  /\ \E payload \in ConcurrentUploads :
       /\ upload = payload
       /\ threads = ThreadsOf(encode_data(payload))
  /\ pending = {} /\ arrived = <<>> /\ delivered = <<>>
  /\ client = <<>> /\ sweep = <<>> /\ activity = <<>>

ThreadStep(t) ==
  \/ ThreadParse(t)
  \/ ThreadStore(t)
  \/ ThreadStamp(t)
  \/ ThreadCheckMetadata(t)
  \/ ThreadReadTotal(t)
  \/ ThreadGetSessionData(t)
  \/ ThreadCheckComplete(t)
  \/ ThreadJoin(t)
  \/ ThreadTestComplete(t)
  \/ ThreadCallback(t)
  \/ ThreadDelSessions(t)
  \/ ThreadDelMetadata(t)
  \/ ThreadReply(t)

NextThreads == \E t \in 1..MaxThreads : ThreadStep(t)

SpecThreads == InitThreads /\ [][NextThreads]_vars

\* every handler thread has returned or died
ThreadsFinished == \A t \in DOMAIN threads : threads[t].pc \in {"done", "dead"}

\* C2: when the datagrams of one upload are handled by concurrent threads,
\* the callback is never made twice, and it has been made once when every
\* thread is finished
C2_CallbackExactlyOnce ==
  /\ Len(delivered) <= 1
  /\ ThreadsFinished => Len(delivered) = 1

\* the chunks the threads that stored their chunk have received: index ->
\* text, for the threads past line 400
ReceivedChunks ==
  [i \in {threads[t].decoded[1][2] :
            t \in {u \in DOMAIN threads : threads[u].pc \notin {"L360", "L400"}}} |->
     encode_data(upload)[i + 1]]

\* C23: when no handler thread is in flight, a session whose payload was
\* delivered has no stored chunks and no metadata, and a session whose
\* payload was not delivered holds every chunk received
C23_DeliveredStateDestroyed ==
  ThreadsFinished =>
    IF delivered # <<>>
    THEN ~Has(sessions, SessionId) /\ ~Has(session_metadata, SessionId)
    ELSE Has(sessions, SessionId) /\ sessions[SessionId] = ReceivedChunks

(***************************************************************************)
(* Two sessions at once: a handler thread per session handles an upload    *)
(* chunk and is preempted between any two statements, while polls of both  *)
(* sessions are handled and the consumer queues responses for both.        *)
(***************************************************************************)
OtherSessionId == 4243
SessionIds == {SessionId, OtherSessionId}

\* the poll for chunk 0 of session s
SessionPoll(s) == create_dns_query(PollName(s, 0), ServerDomain, TYPE_TXT, PollTid)

\* the upload chunk the handler thread of session s holds: the chunk of a
\* one-chunk upload
ThreadDatagrams(s) == UploadDatagramsOf(s, PayloadHi, ServerDomain)

SessionPayloads == {PayloadOk, PayloadTwo}

\* thread 1 handles a chunk of the first session, thread 2 one of the other
InitSessions ==
  /\ InitServer /\ InitObserver /\ InitScenario
  /\ \E first \in ThreadDatagrams(SessionId) :
       \E second \in ThreadDatagrams(OtherSessionId) :
         threads = <<NewThread(first, ClientAddr), NewThread(second, ClientAddr)>>
  /\ client = <<>> /\ sweep = <<>> /\ activity = <<>>

\* the handler of a poll runs while the two threads are preempted
SessionsPoll ==
  /\ \E s \in SessionIds : HandleQuery(SessionPoll(s), ClientAddr, None)
  /\ UNCHANGED <<scenarioVars, otherVars>>

SessionsQueue ==
  /\ \E s \in SessionIds : \E data \in SessionPayloads : QueueResponse(s, data)
  /\ UNCHANGED <<scenarioVars, otherVars>>

NextSessions ==
  \/ \E t \in 1..2 : ThreadStep(t)
  \/ SessionsPoll
  \/ SessionsQueue

SpecSessions == InitSessions /\ [][NextSessions]_vars

\* what the server holds for session s: stored chunks, declared total and
\* timestamp, queued response
Held(d, s) == IF Has(d, s) THEN Some(d[s]) ELSE None
SessionState(s) ==
  <<Held(sessions, s), Held(session_metadata, s), Held(response_queue, s)>>

\* thread t executes a statement in this step
Steps(t) == threads'[t].pc # threads[t].pc

\* this step is a statement of the handler thread of session s (the first
\* statement gives the thread its decoded fields), the handler of a poll
\* of session s, or queue_response(s, ...)
ActsOn(s) ==
  \/ \E t \in DOMAIN threads :
       Steps(t) /\ threads'[t].decoded # None /\ threads'[t].decoded[1][1] = s
  \/ /\ \A t \in DOMAIN threads : ~Steps(t)
     /\ \/ last'.op = "queue" /\ last'.session_id = s
        \/ last'.op = "query" /\ last'.decoded # None /\ last'.decoded[1][1] = s

\* thread t has not returned
Running(t) == t \in DOMAIN threads /\ threads[t].pc \notin {"done", "dead"}

\* the positions of the statements of ThreadStep; each statement is taken
\* on the thread's position alone: the code holds no lock and waits for
\* nothing
Positions ==
  {"L360", "L400", "L401", "L442", "L444", "L445", "L446", "L448", "L405", "L408",
   "L411", "L412", "L415"}

\* C19: a step that handles an upload chunk, a poll or a queue_response of
\* one session leaves the stored chunks, the declared total and timestamp
\* and the queued response of every other session as they were; it leaves
\* the handler thread of the other session where it stands with its locals,
\* and a thread that has not returned stands at a statement it can take
C19_SessionsAreIsolated ==
  [][/\ \A s \in SessionIds : ActsOn(s) =>
          \A o \in SessionIds \ {s} : SessionState(o)' = SessionState(o)
     /\ \A t \in DOMAIN threads : ~Steps(t) => threads'[t] = threads[t]
     /\ \A t \in DOMAIN threads : Running(t) => threads[t].pc \in Positions]_vars

\* both handler threads are between their store and their reply, both
\* sessions have a queued response, the other session has stored chunks,
\* and the last whole handler served a session while the thread of the
\* other one was preempted
C19_Witness ==
  /\ threads[1].pc = "L401"
  /\ threads[2].pc \in {"L442", "L444", "L445", "L446"}
  /\ \A s \in SessionIds : Has(response_queue, s)
  /\ Has(sessions, OtherSessionId) /\ Has(session_metadata, OtherSessionId)
  /\ last.op = "query" /\ last.decoded # None
  /\ last.decoded[1][1] = OtherSessionId

(***************************************************************************)
(* DNSTunnelClient of src/dnstunnel.py against the server, no datagram     *)
(* lost: the client waits for the reply to each query, so the server       *)
(* handles one datagram at a time.                                         *)
(***************************************************************************)
max_chunks == 100

\* the client between operations.  expected, got and replied observe the
\* operation: the payload queued for the session when the polling began, the
\* payloads the callback received, the replies the consumer queued from
\* inside the callback; sentlog, timeouts, polls and send_failed observe its
\* socket: the upload datagrams passed to sendto, the replies that timed
\* out, the polls made, and whether a socket call of send raised.
IdleClient ==
  [op |-> "idle", stage |-> "idle", data |-> <<>>, chunks |-> <<>>, i |-> 0,
   chunk_num |-> 0, all_data |-> <<>>, total_chunks |-> None, result |-> None,
   expected |-> None, got |-> <<>>, replied |-> <<>>, chunk_data |-> None,
   sentlog |-> <<>>, timeouts |-> 0, polls |-> 0, send_failed |-> FALSE]

\* the operation returns value
Return(c, value) == [c EXCEPT !.stage = "returned", !.result = value]

\* the stage after the upload loop of send
AfterSend(c) ==
  IF c.op = "send" THEN Return(c, Some(TRUE)) ELSE [c EXCEPT !.stage = "receive"]

\* a call of send(data), send_and_receive(data) or receive(): chunks is
\* self._encode_data(data)
StartOp(op, data, chunks) ==
  IF op = "receive" THEN [IdleClient EXCEPT !.op = op, !.stage = "receive"]
  ELSE IF chunks = <<>> THEN AfterSend([IdleClient EXCEPT !.op = op, !.data = data])
  ELSE [IdleClient EXCEPT !.op = op, !.stage = "send", !.data = data, !.chunks = chunks]

\* the query of the upload loop for chunk c.i
UploadQuery(c) ==
  create_dns_query(UploadName(SessionId, c.i, Len(c.chunks), c.chunks[c.i + 1]),
                   ServerDomain, TYPE_A, UploadTid)

\* the payloads of the callbacks calls
RECURSIVE CallPayloads(_)
CallPayloads(calls) ==
  IF calls = <<>> THEN <<>> ELSE <<Head(calls)[2]>> \o CallPayloads(Tail(calls))

\* the client after the exchange for chunk c.i; calls are the callbacks the
\* server made, react what the consumer did in them
AfterChunk(c, calls, react) ==
  [(IF c.i + 1 < Len(c.chunks) THEN c ELSE AfterSend(c))
     EXCEPT !.i = c.i + 1,
            !.got = c.got \o CallPayloads(calls),
            !.replied = IF calls # <<>> /\ react # None
                        THEN Append(c.replied, react[1]) ELSE c.replied]

\* sock.sendto(query, ...) of the upload loop
Transmitted(c) == [c EXCEPT !.sentlog = Append(@, UploadQuery(c))]

\* chunk_data = self._receive_chunk(chunk_num, timeout)
Polled(c, chunk_data) == [c EXCEPT !.polls = @ + 1, !.chunk_data = chunk_data]

\* the query of _receive_chunk
PollQuery(c) == create_dns_query(PollName(SessionId, c.chunk_num), ServerDomain, TYPE_TXT, PollTid)

\* "if data:" of _receive_chunk: pad, upper-case and b32decode the whole
\* reply text; an exception gives None
ChunkBytes(data) ==
  IF data = None \/ data[1] = <<>> THEN None ELSE text_to_bytes(data[1])

\* DNSTunnelClient._receive_chunk on what the server sent back: nothing
\* (socket.timeout) or one response datagram
receive_chunk(out) ==
  IF out = <<>> THEN None ELSE ChunkBytes(parse_dns_response(out[1][1]))

\* "if all_data: return b''.join(all_data)" else None
JoinAll(all_data) == IF all_data # <<>> THEN Some(Join(all_data)) ELSE None

\* a loop that ends only with the last chunk
ReceiveAppendedUnbounded(c, current, total) ==
  IF current + 1 >= total THEN Return(c, JoinAll(c.all_data)) ELSE c

\* the loop body of receive after the header fields parsed
ReceiveAppended(c, current, total) ==
  IF current + 1 >= total \/ c.chunk_num >= max_chunks
  THEN Return(c, JoinAll(c.all_data)) ELSE c

ReceiveCounted(c, chunk_data, data, current, total) ==
  IF current = None \/ total = None THEN Return(c, Some(chunk_data))
  ELSE ReceiveAppended([c EXCEPT !.total_chunks = IF @ = None THEN total ELSE @,
                                 !.all_data = Append(@, data),
                                 !.chunk_num = @ + 1],
                       current[1], total[1])

\* parts = header.split(b"/")
ReceiveFields(c, chunk_data, data, parts) ==
  IF Len(parts) < 2 THEN Return(c, Some(chunk_data))
  ELSE ReceiveCounted(c, chunk_data, data, ParseInt(parts[1]), ParseInt(parts[2]))

\* header, data = chunk_data.split(b":", 3)[1:]
ReceiveHeader(c, chunk_data, rest) ==
  IF Len(rest) # 2 THEN Return(c, Some(chunk_data))
  ELSE ReceiveFields(c, chunk_data, rest[2], Split(rest[1], ChSlash, -1))

\* a loop that appends an unframed reply to the chunks accumulated
ReceiveStepJoining(c, chunk_data) ==
  IF chunk_data = None THEN Return(c, JoinAll(c.all_data))
  ELSE IF ~StartsWith(chunk_data[1], ChunkPrefix)
  THEN Return(c, Some(Join(c.all_data) \o chunk_data[1]))
  ELSE ReceiveHeader(c, chunk_data[1], Tail(Split(chunk_data[1], ChColon, 3)))

\* a loop that polls on after a poll without data
ReceiveStepPollingOn(c, chunk_data) ==
  IF chunk_data = None THEN c
  ELSE IF ~StartsWith(chunk_data[1], ChunkPrefix) THEN Return(c, chunk_data)
  ELSE ReceiveHeader(c, chunk_data[1], Tail(Split(chunk_data[1], ChColon, 3)))

\* one pass of the loop of DNSTunnelClient.receive; chunk_data is what
\* _receive_chunk returned
ReceiveStep(c, chunk_data) ==
  IF chunk_data = None THEN Return(c, JoinAll(c.all_data))
  ELSE IF ~StartsWith(chunk_data[1], ChunkPrefix) THEN Return(c, chunk_data)
  ELSE ReceiveHeader(c, chunk_data[1], Tail(Split(chunk_data[1], ChColon, 3)))

\* the client at its first poll notes what is queued for its session
MarkExpected(c) ==
  IF c.chunk_num # 0 THEN c
  ELSE [c EXCEPT !.expected = IF Has(response_queue, SessionId)
                              THEN Some(queued_payload[SessionId]) ELSE None]

\* b"CHUNK:0/1:zz"
PayloadFramed == ChunkPrefix \o <<48, 47, 49, 58, 122, 122>>
ClientPayloads == {PayloadHi, PayloadA}
ClientReplies == {PayloadOk, PayloadTwo, PayloadFramed}
ClientReactions == {None} \cup {Some(r) : r \in ClientReplies}

clientFrame == <<scenarioVars, threads, sweep, activity>>

InitClient ==
  /\ InitServer /\ InitObserver /\ InitScenario
  /\ client = IdleClient
  /\ threads = <<>> /\ sweep = <<>> /\ activity = <<>>

\* the application calls send, send_and_receive or receive
ClientCall ==
  /\ client.stage \in {"idle", "returned"}
  /\ \/ \E op \in {"send", "send_and_receive"} :
          \E data \in ClientPayloads : client' = StartOp(op, data, encode_data(data))
     \/ client' = StartOp("receive", <<>>, <<>>)
  /\ UNCHANGED <<serverVars, observerVars, clientFrame>>

\* one pass of the upload loop of send: the query, the server's handler, the
\* reply
ClientSendChunk ==
  /\ client.stage = "send"
  /\ \E react \in ClientReactions :
       /\ HandleQuery(UploadQuery(client), ClientAddr, react)
       /\ client' = AfterChunk(Transmitted(client), callbacks', react)
  /\ UNCHANGED clientFrame

\* one pass of the loop of receive: the poll, the server's handler, the reply
ClientPoll ==
  /\ client.stage = "receive"
  /\ HandleQuery(PollQuery(client), ClientAddr, None)
  /\ client' = ReceiveStep(MarkExpected(Polled(client, receive_chunk(sent'))), receive_chunk(sent'))
  /\ UNCHANGED clientFrame

\* the consumer queues a response while the client is between operations
ClientQueue ==
  /\ client.stage \in {"idle", "returned"}
  /\ \E data \in ClientReplies : QueueResponse(SessionId, data)
  /\ UNCHANGED <<client, clientFrame>>

NextClient == ClientCall \/ ClientSendChunk \/ ClientPoll \/ ClientQueue

SpecClient == InitClient /\ [][NextClient]_vars

\* C4: a receive that began with a response of two or more chunks queued for
\* the client's session returns the payload that was passed to
\* queue_response
C4_ReceiveReassemblesChunks ==
  (/\ client.stage = "returned"
   /\ client.op \in {"receive", "send_and_receive"}
   /\ client.expected # None
   /\ Len(response_chunks(client.expected[1])) >= 2)
    => client.result = client.expected

\* C5: send_and_receive of a payload of one upload chunk, to which the
\* consumer replied from inside the callback, returns the bytes the
\* consumer queued, and the callback received the payload sent
C5_SendAndReceiveRoundTrips ==
  (/\ client.stage = "returned"
   /\ client.op = "send_and_receive"
   /\ Len(client.chunks) = 1
   /\ client.replied # <<>>)
    => /\ client.result = Some(client.replied[Len(client.replied)])
       /\ client.got = <<client.data>>

(***************************************************************************)
(* The client on a network that may lose, answer or refuse anything: each  *)
(* socket call of send and of _receive_chunk ends in one of the ways the   *)
(* code distinguishes.                                                     *)
(***************************************************************************)
\* send after "except Exception": the loop is left, send returns False and
\* send_and_receive returns None
SendFailedPolls(c) ==
  IF c.op = "send" THEN Return([c EXCEPT !.send_failed = TRUE], Some(FALSE))
  ELSE [c EXCEPT !.send_failed = TRUE, !.stage = "receive"]

SendFailed(c) ==
  Return([c EXCEPT !.send_failed = TRUE], IF c.op = "send" THEN Some(FALSE) ELSE None)

\* an upload loop that repeats a chunk whose reply timed out
NetAfterChunkRetry(c, outcome) ==
  IF outcome = "sendto raises" THEN SendFailed(c)
  ELSE IF outcome = "recvfrom raises" THEN SendFailed(Transmitted(c))
  ELSE IF outcome = "timeout"
  THEN [Transmitted(c) EXCEPT !.timeouts = @ + 1]
  ELSE AfterChunk(Transmitted(c), <<>>, None)

\* one pass of the upload loop of send: sendto raises, or the datagram is
\* sent and recvfrom returns a response, times out or raises
NetAfterChunk(c, outcome) ==
  IF outcome = "sendto raises" THEN SendFailed(c)
  ELSE IF outcome = "recvfrom raises" THEN SendFailed(Transmitted(c))
  ELSE IF outcome = "timeout"
  THEN AfterChunk([Transmitted(c) EXCEPT !.timeouts = @ + 1], <<>>, None)
  ELSE AfterChunk(Transmitted(c), <<>>, None)

SendOutcomes == {"response", "timeout", "sendto raises", "recvfrom raises"}

\* the texts of the answers: the text of b"CHUNK:0/5:zz", of b"CHUNK:4/5:zz",
\* of b"CHUNK:x/y:zz" and of b"ok", and "CHUNK:0/2:nbuq" as
\* DNSTunnelServer frames a chunk
NetTexts ==
  {bytes_to_text(ChunkHeader(0, 5) \o <<122, 122>>),
   bytes_to_text(ChunkHeader(4, 5) \o <<122, 122>>),
   bytes_to_text(ChunkPrefix \o <<120, ChSlash, 121, ChColon, 122, 122>>),
   bytes_to_text(PayloadOk),
   ChunkHeader(0, 2) \o TextHi}

\* what recvfrom of _receive_chunk gives: nothing (a timeout, or a socket
\* call that raised), or a response datagram
NetAnswers ==
  {<<>>}
  \cup {<<<<create_dns_response(PollTid, PollName(SessionId, 0) \o <<ChDot>> \o ServerDomain,
                                TYPE_TXT, Some(text)), ClientAddr>>>> : text \in NetTexts}
  \cup {<<<<create_dns_response(PollTid, PollName(SessionId, 0) \o <<ChDot>> \o ServerDomain,
                                TYPE_TXT, None), ClientAddr>>>>}

\* b"", and payloads of one, two and three upload chunks
NetPayloads == {<<>>, PayloadHi, PayloadA, UploadOfChunks(3)}

\* the application calls send, send_and_receive or receive
NetCall ==
  /\ client.stage \in {"idle", "returned"}
  /\ \/ \E op \in {"send", "send_and_receive"} :
          \E data \in NetPayloads : client' = StartOp(op, data, encode_data(data))
     \/ client' = StartOp("receive", <<>>, <<>>)
  /\ UNCHANGED <<serverVars, observerVars, clientFrame>>

\* one pass of the upload loop of send
NetSendChunk ==
  /\ client.stage = "send"
  /\ \E outcome \in SendOutcomes : client' = NetAfterChunk(client, outcome)
  /\ UNCHANGED <<serverVars, observerVars, clientFrame>>

\* one pass of the loop of receive
NetPoll ==
  /\ client.stage = "receive"
  /\ \E out \in NetAnswers : client' = ReceiveStep(Polled(client, receive_chunk(out)), receive_chunk(out))
  /\ UNCHANGED <<serverVars, observerVars, clientFrame>>

NextNetwork == NetCall \/ NetSendChunk \/ NetPoll

SpecNetwork == InitClient /\ [][NextNetwork]_vars

\* C16: a receive makes at most max_chunks polls, and after the poll
\* number max_chunks it has returned
C16_ReceiveIsBounded ==
  /\ client.polls <= max_chunks
  /\ client.stage = "receive" => client.polls < max_chunks

\* a receive returned after max_chunks polls, each answered with a framed
\* chunk that is not the last
C16_Witness ==
  /\ client.stage = "returned"
  /\ client.op = "receive"
  /\ client.polls = max_chunks
  /\ client.result # None
  /\ Len(client.result[1]) = 2 * max_chunks

\* the number of upload chunks of a payload of n bytes: the text has
\* ceil(8n / 5) characters, a chunk 32 of them
NumChunks(n) == (((8 * n + 4) \div 5) + 31) \div 32

\* the fields the server decodes from an upload datagram of the client
UploadFields(datagram) == decode_subdomain(parse_dns_query(datagram)[1][2], ServerDomain)

\* the chunk texts of the upload datagrams sent
SentTexts(log) == AsSeq([k \in 1..Len(log) |-> UploadFields(log[k])[1][4]])

\* C17: the k-th datagram send passes to the socket is the chunk with
\* index k-1 of the payload, named {session}-{k-1}-{total}-{text}; a send
\* that has returned returned failure exactly if a socket call raised, and
\* one that returned success has sent every chunk once, in order, timed
\* out or not
C17_SendOncePerChunk ==
  client.op \in {"send", "send_and_receive"} =>
    /\ Len(client.sentlog) <= NumChunks(Len(client.data))
    /\ \A k \in 1..Len(client.sentlog) :
         /\ UploadFields(client.sentlog[k]) # None
         /\ UploadFields(client.sentlog[k])[1][1] = SessionId
         /\ UploadFields(client.sentlog[k])[1][2] = k - 1
         /\ UploadFields(client.sentlog[k])[1][3] = NumChunks(Len(client.data))
    /\ (client.op = "send" /\ client.stage = "returned")
         => client.result = Some(~client.send_failed)
    /\ (client.stage \in {"returned", "receive"} /\ ~client.send_failed)
         => /\ Len(client.sentlog) = NumChunks(Len(client.data))
            /\ text_to_bytes(Join(SentTexts(client.sentlog))) = Some(client.data)

\* a send of three chunks returned success although every reply timed out
C17_Witness ==
  /\ client.op = "send"
  /\ client.stage = "returned"
  /\ client.result = Some(TRUE)
  /\ Len(client.sentlog) = 3
  /\ client.timeouts = 3

\* C18: a send_and_receive whose send failed has returned None without a
\* poll; no poll is made before every chunk was sent, and none while the
\* upload loop runs
C18_ReceiveOnlyAfterSend ==
  client.op = "send_and_receive" =>
    /\ client.send_failed
         => (client.stage = "returned" /\ client.result = None /\ client.polls = 0)
    /\ client.stage = "send" => client.polls = 0
    /\ client.polls > 0 => Len(client.sentlog) = NumChunks(Len(client.data))

\* a send_and_receive returned None without a poll after the second of
\* three chunks failed
C18_Witness ==
  /\ client.op = "send_and_receive"
  /\ client.stage = "returned"
  /\ client.send_failed
  /\ Len(client.sentlog) = 2
  /\ Len(client.chunks) = 3
  /\ client.result = None
  /\ client.polls = 0

\* this step is a poll of receive
IsPoll == client.stage = "receive" /\ client'.polls = client.polls + 1

\* C25: a poll of receive that timed out, or whose reply held no text or a
\* text that does not decode, ends the call: it returns the join of the
\* chunks accumulated before it, or null if there are none, and no poll
\* is made by a call that has returned
C25_EmptyPollStopsReceive ==
  [][/\ (IsPoll /\ client'.chunk_data = None) =>
          /\ client'.stage = "returned"
          /\ client'.result = (IF client.all_data = <<>> THEN None
                               ELSE Some(Join(client.all_data)))
          /\ client'.all_data = client.all_data
     /\ client.stage = "returned" => client'.polls <= client.polls]_vars

\* a receive accumulated two framed chunks, got nothing at its third poll
\* and returned the two bodies joined
C25_Witness ==
  /\ client.op = "receive" /\ client.stage = "returned"
  /\ client.polls = 3 /\ client.chunk_data = None
  /\ Len(client.all_data) = 2
  /\ client.result = Some(Join(client.all_data))

\* C26: a poll of receive whose reply decodes to bytes that do not start
\* with "CHUNK:" ends the call with exactly these bytes, whatever was
\* accumulated before, and no poll is made by a call that has returned
C26_UnframedReturnsAtOnce ==
  [][/\ (IsPoll /\ client'.chunk_data # None
           /\ ~StartsWith(client'.chunk_data[1], ChunkPrefix)) =>
          /\ client'.stage = "returned"
          /\ client'.result = client'.chunk_data
     /\ client.stage = "returned" => client'.polls <= client.polls]_vars

\* a receive that had accumulated a framed chunk got the unframed reply
\* b"ok" at its second poll and returned b"ok"
C26_Witness ==
  /\ client.op = "receive" /\ client.stage = "returned"
  /\ client.polls = 2 /\ Len(client.all_data) = 1
  /\ client.chunk_data = Some(PayloadOk)
  /\ client.result = Some(PayloadOk)

(***************************************************************************)
(* The channel text of a payload and back: the client's upload chunks,     *)
(* joined and decoded by the server, and the server's unframed answer,     *)
(* sent in a text record and decoded by the client.                        *)
(***************************************************************************)
MaxCodecLen == 4

\* byte values with no, the lowest, the highest and every bit set
CodecBytes == {0, 1, 128, 255}

\* every byte string of up to MaxCodecLen of these bytes; payloads of one
\* full upload chunk, of two upload chunks, and the longest payload whose
\* answer is unframed
CodecPayloads ==
  UNION {{AsSeq(f) : f \in [1..n -> CodecBytes]} : n \in 0..MaxCodecLen}
  \cup {Pattern(20, 7), PayloadA, PayloadFull}

\* the chunk list as the dict the server holds once every chunk is stored
AsSessionData(chunks) == [i \in 0..(Len(chunks) - 1) |-> chunks[i + 1]]

\* the codec's position: stage "data" before the encode step, "text" after
\* it, "bytes" after the decode step; texts are the chunk texts
CodecAt(stage, path, texts, result) ==
  [stage |-> stage, path |-> path, texts |-> texts, result |-> result]

InitCodec ==
  /\ InitServer /\ InitObserver
  /\ upload \in CodecPayloads
  /\ client = CodecAt("data", "none", <<>>, None)
  /\ pending = {} /\ arrived = <<>> /\ delivered = <<>>
  /\ threads = <<>> /\ sweep = <<>> /\ activity = <<>>

codecFrame ==
  <<serverVars, observerVars, upload, pending, arrived, delivered, threads, sweep, activity>>

\* DNSTunnelClient._encode_data
UploadEncoded ==
  /\ client.stage = "data"
  /\ client' = CodecAt("text", "upload", encode_data(upload), None)
  /\ UNCHANGED codecFrame

\* DNSTunnelServer.queue_response, for a payload whose text needs no header
AnswerEncoded ==
  /\ client.stage = "data"
  /\ Len(response_chunks(upload)) = 1
  /\ client' = CodecAt("text", "answer", response_chunks(upload), None)
  /\ UNCHANGED codecFrame

\* lines 448-454 of _assemble_session_data over the stored chunks
UploadDecoded ==
  /\ client.stage = "text" /\ client.path = "upload"
  /\ client' = CodecAt("bytes", "upload", client.texts,
                       AssembleChunks(AsSessionData(client.texts), Len(client.texts)).value)
  /\ UNCHANGED codecFrame

\* the text record the server builds for the answer, and _receive_chunk on it
AnswerBytes(text) ==
  receive_chunk(<<<<create_dns_response(PollTid, PollName(SessionId, 0) \o <<ChDot>> \o ServerDomain,
                                        TYPE_TXT, Some(text)),
                    ClientAddr>>>>)

AnswerDecoded ==
  /\ client.stage = "text" /\ client.path = "answer"
  /\ client' = CodecAt("bytes", "answer", client.texts, AnswerBytes(client.texts[1]))
  /\ UNCHANGED codecFrame

NextCodec == UploadEncoded \/ AnswerEncoded \/ UploadDecoded \/ AnswerDecoded

SpecCodec == InitCodec /\ [][NextCodec]_vars

\* C20: the channel text of a payload decodes to the payload: the text
\* itself after padding and case folding, the joined upload chunks as the
\* server decodes them, and the unframed answer as the client decodes it
\* out of the text record; the empty payload has no text to put in an
\* answer
C20_TextRoundTrips ==
  /\ text_to_bytes(bytes_to_text(upload)) = Some(upload)
  /\ client.stage \in {"text", "bytes"} => Join(client.texts) = bytes_to_text(upload)
  /\ client.stage = "bytes" /\ client.path = "upload" => client.result = Some(upload)
  /\ client.stage = "bytes" /\ client.path = "answer" /\ upload # <<>> =>
       client.result = Some(upload)

\* a payload whose text needs padding restored has been through both paths'
\* decode steps: here the answer path of a payload of MaxCodecLen bytes
C20_Witness ==
  /\ client.stage = "bytes" /\ client.path = "answer"
  /\ Len(upload) = MaxCodecLen
  /\ Len(client.texts[1]) % 8 # 0
  /\ \E i \in 1..Len(client.texts[1]) : client.texts[1][i] # Upper(client.texts[1])[i]
  /\ client.result = Some(upload)

(***************************************************************************)
(* Slicing of a channel text: the list comprehension of _encode_data and   *)
(* the loop of queue_response for a text longer than one answer.           *)
(***************************************************************************)
MaxSliceLen == 12
MaxSliceWidth == 4

\* a text of n letters, the i-th being the (i mod 26)-th letter
Letters(n) == AsSeq([i \in 1..n |-> 97 + (i % 26)])

\* short texts under every small width, and texts around the multiples of
\* the two widths of the code
SliceInputs ==
  {<<Letters(n), w>> : n \in 0..MaxSliceLen, w \in 1..MaxSliceWidth}
  \cup {<<Letters(n), upload_chunk_size>> : n \in {0, 1, 31, 32, 33, 64, 65, 97}}
  \cup {<<Letters(n), max_chunk_size - header_overhead>> : n \in {159, 160, 161, 320, 321, 481}}

\* the slicing's position: stage "text" before it, "pieces" after it; path
\* is "upload" or "response"
SliceAt(stage, path, width, pieces) ==
  [stage |-> stage, path |-> path, width |-> width, pieces |-> pieces]

InitSlice ==
  /\ InitServer /\ InitObserver
  /\ \E input \in SliceInputs :
       /\ upload = input[1]
       /\ client = SliceAt("text", "none", input[2], <<>>)
  /\ pending = {} /\ arrived = <<>> /\ delivered = <<>>
  /\ threads = <<>> /\ sweep = <<>> /\ activity = <<>>

\* the piece of a framed chunk: what follows its header
FramedBody(chunk, i, total_chunks) ==
  IF StartsWith(chunk, ChunkHeader(i, total_chunks))
  THEN Some(SubSeq(chunk, Len(ChunkHeader(i, total_chunks)) + 1, Len(chunk)))
  ELSE None

FramedBodies(chunks) ==
  AsSeq([k \in 1..Len(chunks) |-> FramedBody(chunks[k], k - 1, Len(chunks))])

\* [encoded[i:i+chunk_size] for i in range(0, len(encoded), chunk_size)]
SliceUpload ==
  /\ client.stage = "text"
  /\ client' = SliceAt("pieces", "upload", client.width,
                       AsSeq([k \in 1..Len(slice(upload, client.width)) |->
                                Some(slice(upload, client.width)[k])]))
  /\ UNCHANGED codecFrame

\* the else-branch of queue_response: the text does not fit one answer
SliceResponse ==
  /\ client.stage = "text"
  /\ Len(upload) > client.width
  /\ client' = SliceAt("pieces", "response", client.width,
                       FramedBodies(ChunkList(upload, client.width)))
  /\ UNCHANGED codecFrame

NextSlice == SliceUpload \/ SliceResponse

SpecSlice == InitSlice /\ [][NextSlice]_vars

\* the pieces, each Some(text)
PieceTexts(pieces) == AsSeq([k \in 1..Len(pieces) |-> pieces[k][1]])

\* C21: the pieces of a text are its consecutive stretches of the width,
\* all of exactly the width but the last, which is not empty and not
\* longer, and joined in order they are the text again
C21_SlicingIsLossFree ==
  client.stage = "pieces" =>
    /\ \A k \in 1..Len(client.pieces) : client.pieces[k] # None
    /\ Join(PieceTexts(client.pieces)) = upload
    /\ Len(client.pieces) * client.width >= Len(upload)
    /\ (Len(client.pieces) - 1) * client.width < Len(upload) \/ upload = <<>>
    /\ \A k \in 1..Len(client.pieces) :
         /\ client.pieces[k][1] # <<>>
         /\ Len(client.pieces[k][1]) <= client.width
         /\ k < Len(client.pieces) => Len(client.pieces[k][1]) = client.width
         /\ \A j \in 1..Len(client.pieces[k][1]) :
              client.pieces[k][1][j] = upload[(k - 1) * client.width + j]

\* both slicings have cut a text into three pieces of which the last is
\* shorter: here the response slicing at the width of the code
C21_Witness ==
  /\ client.stage = "pieces" /\ client.path = "response"
  /\ client.width = max_chunk_size - header_overhead
  /\ Len(client.pieces) = 3
  /\ Len(client.pieces[3][1]) < client.width
  /\ Join(PieceTexts(client.pieces)) = upload

(***************************************************************************)
(* The text record of an answer: _create_dns_response builds it from the   *)
(* answer text, _parse_dns_response and _receive_chunk read it back.       *)
(***************************************************************************)
MaxRecordLen == 40

\* no text, the empty text, every text of up to MaxRecordLen letters, texts
\* around the multiples of the segment length, and the text of a payload
RecordTexts ==
  {None, Some(<<>>)}
  \cup {Some(Letters(n)) : n \in 1..MaxRecordLen}
  \cup {Some(Letters(n)) : n \in {254, 255, 256, 300, 509, 510, 511, 766}}
  \cup {Some(bytes_to_text(PayloadFull))}

\* the record's position: stage "text" before the response is built,
\* "response" once it is, "parsed" once the client has read it; data is
\* what _parse_dns_response returned
RecordAt(stage, response, data) == [stage |-> stage, response |-> response, data |-> data]

InitRecord ==
  /\ InitServer /\ InitObserver
  /\ upload \in RecordTexts
  /\ client = RecordAt("text", <<>>, None)
  /\ pending = {} /\ arrived = <<>> /\ delivered = <<>>
  /\ threads = <<>> /\ sweep = <<>> /\ activity = <<>>

\* the response to a text-record poll with the text as its answer
BuildRecord ==
  /\ client.stage = "text"
  /\ client' = RecordAt("response",
                        create_dns_response(PollTid,
                                            PollName(SessionId, 0) \o <<ChDot>> \o ServerDomain,
                                            TYPE_TXT, upload),
                        None)
  /\ UNCHANGED codecFrame

\* data = self._parse_dns_response(response)
ParseRecord ==
  /\ client.stage = "response"
  /\ client' = RecordAt("parsed", client.response, parse_dns_response(client.response))
  /\ UNCHANGED codecFrame

NextRecord == BuildRecord \/ ParseRecord

SpecRecord == InitRecord /\ [][NextRecord]_vars

\* the offset of the record's 2-byte data length: behind the question
\* (name, terminator, type, class) and the answer's name pointer, type,
\* class and time to live
RecordLengthAt(response) == SkipName(response, 12) + 15

RecordLength(response) ==
  UnpackU16(Slice(response, RecordLengthAt(response), RecordLengthAt(response) + 2))

RecordData(response) == Slice(response, RecordLengthAt(response) + 2, Len(response))

\* the segments of record data: each a length byte and that many bytes
RECURSIVE Segments(_)
Segments(data) ==
  IF data = <<>> THEN <<>>
  ELSE <<Slice(data, 1, 1 + data[1])>> \o Segments(Slice(data, 1 + data[1], Len(data)))

\* the sum of the lengths of segments with their length bytes
RECURSIVE SegmentsSize(_)
SegmentsSize(segments) ==
  IF segments = <<>> THEN 0 ELSE 1 + Len(Head(segments)) + SegmentsSize(Tail(segments))

\* the record of a text: ceil(len / 255) segments, all of 255 bytes but
\* the last, which is not empty, that fill the data length and join to
\* the text
RecordCarries(text, response, segments) ==
  /\ Len(RecordData(response)) = RecordLength(response)
  /\ SegmentsSize(segments) = RecordLength(response)
  /\ Len(segments) = (Len(text) + 254) \div 255
  /\ \A k \in 1..Len(segments) :
       /\ segments[k] # <<>> /\ Len(segments[k]) <= 255
       /\ k < Len(segments) => Len(segments[k]) = 255
  /\ Join(segments) = text

\* C27: the response to a text-record query with a non-empty text carries
\* the text in length-prefixed segments of at most 255 bytes that fill the
\* record's data length, and the client's decoder returns the text; with
\* no text or the empty text the record is one zero-length segment and the
\* client obtains no data
C27_TextRecordRoundTrips ==
  /\ client.stage \in {"response", "parsed"} =>
       IF upload # None /\ upload[1] # <<>>
       THEN RecordCarries(upload[1], client.response, Segments(RecordData(client.response)))
       ELSE RecordLength(client.response) = 1 /\ RecordData(client.response) = <<0>>
  /\ client.stage = "parsed" =>
       IF upload # None /\ upload[1] # <<>>
       THEN client.data = upload /\ ChunkBytes(client.data) = text_to_bytes(upload[1])
       ELSE ChunkBytes(client.data) = None

\* a text of 766 letters went through the record in four segments
C27_Witness ==
  /\ client.stage = "parsed"
  /\ upload # None /\ Len(upload[1]) = 766
  /\ Len(Segments(RecordData(client.response))) = 4
  /\ client.data = upload

(***************************************************************************)
(* The query datagram: _create_dns_query of the client builds it,          *)
(* _parse_dns_query of the server reads it back.                           *)
(***************************************************************************)
\* subdomains of one label of 1, 2, 62 and 63 letters, "Recv-4242-0" and
\* "ABC" with capitals, "a.bc" of two labels, and the name of an upload
\* chunk
QuerySubdomains ==
  {Letters(n) : n \in {1, 2, 62, 63}}
  \cup {<<82>> \o Tail(PollName(SessionId, 0)), <<65, 66, 67>>, <<97, ChDot, 98, 99>>,
        UploadName(SessionId, 0, 1, TextHi)}

QueryTypes == {TYPE_A, TYPE_TXT, TYPE_AAAA, 255, 256, 65535}
QueryTids == {0, 1, 255, 256, UploadTid, 65535}

\* the query's position: stage "name" before the datagram is built,
\* "query" once it is, "parsed" once the server has read it
QueryAt(stage, subdomain, query_type, transaction_id, query, parsed) ==
  [stage |-> stage, subdomain |-> subdomain, query_type |-> query_type,
   transaction_id |-> transaction_id, query |-> query, parsed |-> parsed]

InitQuery ==
  /\ InitServer /\ InitObserver
  /\ upload = <<>>
  /\ \E subdomain \in QuerySubdomains : \E query_type \in QueryTypes :
       \E transaction_id \in QueryTids :
         client = QueryAt("name", subdomain, query_type, transaction_id, <<>>, None)
  /\ pending = {} /\ arrived = <<>> /\ delivered = <<>>
  /\ threads = <<>> /\ sweep = <<>> /\ activity = <<>>

BuildQuery ==
  /\ client.stage = "name"
  /\ client' = [client EXCEPT !.stage = "query",
                              !.query = create_dns_query(client.subdomain, ServerDomain,
                                                         client.query_type,
                                                         client.transaction_id)]
  /\ UNCHANGED codecFrame

ParseQuery ==
  /\ client.stage = "query"
  /\ client' = [client EXCEPT !.stage = "parsed", !.parsed = parse_dns_query(client.query)]
  /\ UNCHANGED codecFrame

NextQuery == BuildQuery \/ ParseQuery

SpecQuery == InitQuery /\ [][NextQuery]_vars

\* C28: the server's decoder reads from the client's query datagram the
\* transaction id of the header, the name subdomain + "." + domain in
\* lower case and the query type
C28_QueryRoundTrips ==
  client.stage = "parsed" =>
    client.parsed = Some(<<client.transaction_id,
                           Lower(client.subdomain \o <<ChDot>> \o ServerDomain),
                           client.query_type>>)

\* a query of type 65535 with transaction id 65535 whose name has
\* capitals was read back, the name in lower case
C28_Witness ==
  /\ client.stage = "parsed" /\ client.parsed # None
  /\ client.subdomain = <<65, 66, 67>>
  /\ client.parsed[1][2] # client.subdomain \o <<ChDot>> \o ServerDomain
  /\ client.parsed[1][1] = 65535 /\ client.parsed[1][3] = 65535

(***************************************************************************)
(* One client that calls send more than once, on a network that loses and  *)
(* repeats datagrams.  The client's session id is fixed at construction    *)
(* (line 41); the loop of send transmits the chunks in order and goes on   *)
(* after a timeout (lines 62-73).                                          *)
(***************************************************************************)
MaxSends == 2
MaxDuplicates == 1

\* the empty payload, for which send transmits nothing, and payloads of
\* one, two and three upload chunks that differ in every chunk
ResendPayloads == {<<>>, PayloadHi, UploadOfChunks(2), UploadOfChunks(3)}

\* the datagrams of DNSTunnelClient.send in the order of its loop
UploadSequenceOf(session_id, chunks, domain) ==
  [i \in 1..Len(chunks) |->
     create_dns_query(UploadName(session_id, i - 1, Len(chunks), chunks[i]),
                      domain, TYPE_A, UploadTid)]

resendFrame == <<threads, sweep, activity>>

\* upload: the payloads of the send calls so far; pending: the datagrams
\* the current send has still to transmit; arrived: the datagrams the
\* server handled; client: how many datagrams the network repeated
InitResend ==
  /\ InitServer /\ InitObserver
  /\ upload = <<>> /\ pending = <<>> /\ arrived = <<>> /\ delivered = <<>>
  /\ client = [duplicates |-> 0]
  /\ threads = <<>> /\ sweep = <<>> /\ activity = <<>>

\* the application calls send; the previous send has returned
ResendCall ==
  /\ pending = <<>>
  /\ Len(upload) < MaxSends
  /\ \E payload \in ResendPayloads :
       /\ upload' = Append(upload, payload)
       /\ pending' = UploadSequenceOf(SessionId, encode_data(payload), ServerDomain)
  /\ UNCHANGED <<serverVars, observerVars, arrived, delivered, client, resendFrame>>

\* the datagram of one pass of the loop reaches the server
ResendArrives ==
  /\ pending # <<>>
  /\ HandleQuery(Head(pending), ClientAddr, None)
  /\ pending' = Tail(pending)
  /\ arrived' = Append(arrived, Head(pending))
  /\ delivered' = delivered \o callbacks'
  /\ UNCHANGED <<upload, client, resendFrame>>

\* the datagram of one pass of the loop is lost
ResendLost ==
  /\ pending # <<>>
  /\ pending' = Tail(pending)
  /\ UNCHANGED <<serverVars, observerVars, upload, arrived, delivered, client, resendFrame>>

\* the network delivers a second copy of a datagram the server has handled
ResendDuplicate ==
  /\ client.duplicates < MaxDuplicates
  /\ \E i \in 1..Len(arrived) : HandleQuery(arrived[i], ClientAddr, None)
  /\ client' = [client EXCEPT !.duplicates = @ + 1]
  /\ delivered' = delivered \o callbacks'
  /\ UNCHANGED <<upload, pending, arrived, resendFrame>>

NextResend == ResendCall \/ ResendArrives \/ ResendLost \/ ResendDuplicate

SpecResend == InitResend /\ [][NextResend]_vars

\* the payloads of the send calls made
SentPayloads == {upload[i] : i \in 1..Len(upload)}

\* C29: on a network that loses datagrams and repeats none, every payload
\* passed to the callback is the payload of one of the send calls
C29_DeliveredIsOneSend ==
  client.duplicates = 0 =>
    \A i \in 1..Len(delivered) : delivered[i][2] \in SentPayloads

\* the upload the last callback delivered, as the datagrams of its send
DeliveredDatagrams(payload) ==
  {UploadSequenceOf(SessionId, encode_data(payload), ServerDomain)[i] :
     i \in 1..Len(encode_data(payload))}

\* C30: once an upload was delivered and the session's state deleted, the
\* handling of a second copy of one of its datagrams makes no callback
C30_DuplicateMakesNoCallback ==
  [][(/\ client'.duplicates > client.duplicates
      /\ delivered # <<>>
      /\ ~Has(sessions, SessionId) /\ ~Has(session_metadata, SessionId)
      /\ last'.data \in DeliveredDatagrams(delivered[Len(delivered)][2]))
       => callbacks' = <<>>]_vars

\* the handler of upload chunk d, whose session then holds the chunks held
\* at exactly the indices 0..total-1 with a joined text that decodes, made
\* the callback with the decoded payload and deleted the upload state
DeliveredWhenExact(d, held) ==
  (DOMAIN held = 0..(d[3] - 1) /\ HeldPayload(held, d[3]) # None)
    => /\ callbacks' = <<<<d[1], HeldPayload(held, d[3])[1], ClientAddr>>>>
       /\ ~Has(sessions', d[1]) /\ ~Has(session_metadata', d[1])

\* C35: a handler that finds the indices 0..total-1 stored and the joined
\* text decodable delivers the payload and deletes the upload state; and
\* when the only send so far, of the empty payload, has returned, the
\* callback has been made once, with the empty payload
C35_EmptyPayloadIsDelivered ==
  [][/\ (arrived' # arrived \/ client' # client)
          => DeliveredWhenExact(last'.decoded[1], HeldWith(last'.decoded[1]))
     /\ (upload' = <<<<>>>> /\ pending' = <<>>)
          => (Len(delivered') = 1 /\ delivered'[1][2] = <<>>)]_vars

(***************************************************************************)
(* Polls handled by concurrent handler threads of src/dnstunnel.py: the    *)
(* poll branch of _handle_query (lines 375-397), statement by statement,   *)
(* on a response queue that holds one queued response.                     *)
(***************************************************************************)
MaxPollers == 2

\* the thread _run starts for a poll datagram; chunks is the local of line
\* 377, replies counts the thread's sendto calls
NewPoller(data, addr) ==
  [pc |-> "L360", data |-> data, addr |-> addr, parsed |-> None, decoded |-> None,
   chunks |-> <<>>, replies |-> 0]

PollerDatagrams ==
  {create_dns_query(PollName(SessionId, n), ServerDomain, TYPE_TXT, PollTid) : n \in 0..1}

\* responses of one and of two chunks
PollerPayloads == {PayloadOk, PayloadTwo}

\* what no statement of the poll branch touches
pollerFrame ==
  <<sessions, session_metadata, now, callbacks, observerVars, scenarioVars,
    client, sweep, activity>>

InitPollers ==
  /\ InitServer /\ InitObserver /\ InitScenario
  /\ client = <<>> /\ sweep = <<>> /\ activity = <<>>
  /\ \E polls \in [1..MaxPollers -> PollerDatagrams] :
       threads = [t \in 1..MaxPollers |-> NewPoller(polls[t], ClientAddr)]

\* the consumer queues a response before the polls arrive
PollersQueue ==
  /\ ~Has(queued_payload, SessionId)
  /\ \A t \in DOMAIN threads : threads[t].pc = "L360"
  /\ \E data \in PollerPayloads : QueueResponse(SessionId, data)
  /\ UNCHANGED <<scenarioVars, otherVars>>

PollerDecoded(t, parsed, decoded) ==
  [threads EXCEPT ![t].parsed = parsed, ![t].decoded = decoded,
                  ![t].pc = IF parsed = None THEN "done"
                            ELSE IF decoded = None THEN "L371" ELSE "L376"]

PollerParsed(t, parsed) ==
  PollerDecoded(t, parsed,
                IF parsed = None THEN None ELSE decode_subdomain(parsed[1][2], ServerDomain))

\* the reply of thread t with or without text
PollerSends(t, response_data) ==
  <<<<create_dns_response(threads[t].parsed[1][1], threads[t].parsed[1][2],
                          threads[t].parsed[1][3], response_data),
      threads[t].addr>>>>

\* lines 360-372, local to the thread; the datagrams of this scenario are
\* polls
PollerParse(t) ==
  /\ At(t, "L360")
  /\ threads' = PollerParsed(t, parse_dns_query(threads[t].data))
  /\ UNCHANGED <<pollerFrame, response_queue, sent, fault>>

\* line 376: if session_id in self.response_queue
PollerTest(t) ==
  /\ At(t, "L376")
  /\ threads' = Goto(t, IF Has(response_queue, SessionOf(t)) THEN "L377" ELSE "L395")
  /\ UNCHANGED <<pollerFrame, response_queue, sent, fault>>

\* line 377: chunks = self.response_queue[session_id]; KeyError ends the
\* thread
PollerRead(t) ==
  /\ At(t, "L377")
  /\ IF Has(response_queue, SessionOf(t))
     THEN /\ threads' = [threads EXCEPT ![t].chunks = response_queue[SessionOf(t)],
                                        ![t].pc = "L379"]
          /\ fault' = fault
     ELSE /\ threads' = Goto(t, "dead")
          /\ fault' = TRUE
  /\ UNCHANGED <<pollerFrame, response_queue, sent>>

\* line 379: if chunk_num < len(chunks)
PollerCompare(t) ==
  /\ At(t, "L379")
  /\ threads' = Goto(t, IF threads[t].decoded[1][2] < Len(threads[t].chunks)
                        THEN "L381" ELSE "L391")
  /\ UNCHANGED <<pollerFrame, response_queue, sent, fault>>

\* lines 381-384: the reply with chunks[chunk_num]
PollerAnswer(t) ==
  /\ At(t, "L381")
  /\ sent' = PollerSends(t, Some(threads[t].chunks[threads[t].decoded[1][2] + 1]))
  /\ threads' = [threads EXCEPT ![t].replies = @ + 1, ![t].pc = "L387"]
  /\ UNCHANGED <<pollerFrame, response_queue, fault>>

\* line 387: if chunk_num >= len(chunks) - 1
PollerTestLast(t) ==
  /\ At(t, "L387")
  /\ threads' = Goto(t, IF IsLastChunk(threads[t].decoded[1][2], threads[t].chunks)
                        THEN "L388" ELSE "done")
  /\ UNCHANGED <<pollerFrame, response_queue, sent, fault>>

\* line 388: del self.response_queue[session_id]; KeyError ends the thread
PollerDelete(t) ==
  /\ At(t, "L388")
  /\ IF Has(response_queue, SessionOf(t))
     THEN /\ response_queue' = Del(response_queue, SessionOf(t))
          /\ threads' = Goto(t, "done")
          /\ fault' = fault
     ELSE /\ response_queue' = response_queue
          /\ threads' = Goto(t, "dead")
          /\ fault' = TRUE
  /\ UNCHANGED <<pollerFrame, sent>>

\* lines 391-392 and 395-396: the reply without text
PollerPlain(t) ==
  /\ t \in DOMAIN threads /\ threads[t].pc \in {"L391", "L395"}
  /\ sent' = PollerSends(t, None)
  /\ threads' = [threads EXCEPT ![t].replies = @ + 1, ![t].pc = "done"]
  /\ UNCHANGED <<pollerFrame, response_queue, fault>>

PollerStep(t) ==
  \/ PollerParse(t)
  \/ PollerTest(t)
  \/ PollerRead(t)
  \/ PollerCompare(t)
  \/ PollerAnswer(t)
  \/ PollerTestLast(t)
  \/ PollerDelete(t)
  \/ PollerPlain(t)

NextPollers == PollersQueue \/ \E t \in 1..MaxPollers : PollerStep(t)

SpecPollers == InitPollers /\ [][NextPollers]_vars

\* the index of the last chunk the consumer queued for the session
LastQueuedIndex == Len(response_chunks(queued_payload[SessionId])) - 1

\* C32: when the threads have handled polls for the last queued index of
\* the session, none ended in a fault, each sent one reply, and the entry
\* is removed
C32_ConcurrentLastPolls ==
  (/\ Has(queued_payload, SessionId)
   /\ \A t \in DOMAIN threads :
        /\ threads[t].pc \in {"done", "dead"}
        /\ threads[t].decoded # None
        /\ threads[t].decoded[1][2] = LastQueuedIndex)
    => /\ \A t \in DOMAIN threads : threads[t].pc = "done" /\ threads[t].replies = 1
       /\ ~fault
       /\ ~Has(response_queue, SessionId)

(***************************************************************************)
(* The standalone server of src/server.py: its wire codec, its handler,    *)
(* its default on_data_received and the sweep _cleanup_old_sessions.  Its  *)
(* response_queue holds one encoded text per session.                      *)
(***************************************************************************)
\* the label loop of _parse_dns_query: Some(<<labels, offset>>) with the
\* offset the loop ended at, or None where the loop returns None
RECURSIVE StrictLabels(_, _, _)
StrictLabels(data, offset, labels) ==
  IF offset < Len(data) /\ data[offset + 1] # 0
  THEN IF data[offset + 1] > 63 THEN None
       ELSE IF offset + 1 + data[offset + 1] > Len(data) THEN None
       ELSE StrictLabels(data, offset + 1 + data[offset + 1],
                         Append(labels, DecodeAscii(Slice(data, offset + 1,
                                                          offset + 1 + data[offset + 1]))))
  ELSE Some(<<labels, offset>>)

\* _parse_dns_query after the label loop
StrictQuestion(data, walked) ==
  IF walked = None THEN None
  ELSE IF walked[1][2] >= Len(data) THEN None
  ELSE IF walked[1][2] + 1 + 4 > Len(data) THEN None
  ELSE Some(<<UnpackU16(Slice(data, 0, 2)), Lower(JoinDots(walked[1][1])),
              UnpackU16(Slice(data, walked[1][2] + 1, walked[1][2] + 3))>>)

\* server.py _parse_dns_query: Some(<<transaction_id, query_name,
\* query_type>>), or None
standalone_parse_dns_query(data) ==
  IF Len(data) < 12 THEN None ELSE StrictQuestion(data, StrictLabels(data, 12, <<>>))

\* the record data of the answer: Some(bytes), or None where
\* struct.pack('B', len(txt_data)) raises struct.error
StandaloneRdata(query_type, response_data) ==
  IF query_type = TYPE_A THEN Some(PackU16(4) \o <<127, 0, 0, 1>>)
  ELSE IF query_type # TYPE_TXT THEN Some(<<>>)
  ELSE IF response_data = None \/ response_data[1] = <<>> THEN Some(PackU16(1) \o <<0>>)
  ELSE IF Len(response_data[1]) > 255 THEN None
  ELSE Some(PackU16(Len(response_data[1]) + 1) \o <<Len(response_data[1])>>
              \o response_data[1])

StandaloneResponse(head, rdata) == IF rdata = None THEN None ELSE Some(head \o rdata[1])

\* server.py _create_dns_response: Some(datagram), or None where it raises
standalone_create_dns_response(transaction_id, query_name, query_type, response_data) ==
  StandaloneResponse(
    PackU16(transaction_id) \o PackU16(33152) \o PackU16(1) \o PackU16(1)
      \o PackU16(0) \o PackU16(0)
      \o PackLabels(SelectSeq(Split(query_name, ChDot, -1), LAMBDA l : l # <<>>))
      \o <<0>> \o PackU16(query_type) \o PackU16(1)
      \o <<192, 12>> \o PackU16(query_type) \o PackU16(1) \o <<0, 0>> \o PackU16(300),
    StandaloneRdata(query_type, response_data))

\* parts = subdomain.split('-') of a poll: the session id, no chunk index
StandaloneDecodePoll(parts) == DecodedFields(ParseInt(parts[2]), Some(-1), Some(-1), RECV)

StandaloneDecodeName(subdomain) ==
  IF StartsWith(subdomain, RecvPrefix)
  THEN StandaloneDecodePoll(Split(subdomain, ChHyphen, -1))
  ELSE DecodeUpload(Split(subdomain, ChHyphen, 3))

\* server.py _decode_subdomain
standalone_decode_subdomain(query_name, domain) ==
  IF ~EndsWith(query_name, domain) THEN None
  ELSE StandaloneDecodeName(Slice(query_name, 0, Len(query_name) - Len(domain) - 1))

\* the assembly loop and decode: a missing index returns None
StandaloneAssembleChunks(session_data, total_chunks) ==
  IF Cardinality(DOMAIN session_data) # total_chunks THEN None
  ELSE IF \E i \in 0..(total_chunks - 1) : ~Has(session_data, i) THEN None
  ELSE text_to_bytes(Join(AsSeq([k \in 1..total_chunks |-> session_data[k - 1]])))

\* server.py _assemble_session_data: None or Some(bytes)
standalone_assemble_session_data(store, metadata, session_id) ==
  IF ~Has(metadata, session_id) THEN None
  ELSE StandaloneAssembleChunks(IF Has(store, session_id) THEN store[session_id]
                                ELSE EmptyDict,
                                metadata[session_id][1])

\* server.py queue_response as a function of the queue
standalone_queue_response(queue, session_id, data) ==
  Put(queue, session_id, bytes_to_text(data))

\* a UTF-8 continuation byte
Utf8Cont(b, k) == Len(b) >= k /\ b[k] >= 128 /\ b[k] <= 191

\* byte k of b lies in lo..hi
Utf8In(b, k, lo, hi) == Len(b) >= k /\ b[k] >= lo /\ b[k] <= hi

\* the length of the well-formed UTF-8 sequence b begins with, 0 if none
Utf8Length(b) ==
  IF b[1] < 128 THEN 1
  ELSE IF Utf8In(b, 1, 194, 223) THEN (IF Utf8Cont(b, 2) THEN 2 ELSE 0)
  ELSE IF b[1] = 224 THEN (IF Utf8In(b, 2, 160, 191) /\ Utf8Cont(b, 3) THEN 3 ELSE 0)
  ELSE IF b[1] = 237 THEN (IF Utf8In(b, 2, 128, 159) /\ Utf8Cont(b, 3) THEN 3 ELSE 0)
  ELSE IF Utf8In(b, 1, 225, 239) THEN (IF Utf8Cont(b, 2) /\ Utf8Cont(b, 3) THEN 3 ELSE 0)
  ELSE IF b[1] = 240
  THEN (IF Utf8In(b, 2, 144, 191) /\ Utf8Cont(b, 3) /\ Utf8Cont(b, 4) THEN 4 ELSE 0)
  ELSE IF Utf8In(b, 1, 241, 243)
  THEN (IF Utf8Cont(b, 2) /\ Utf8Cont(b, 3) /\ Utf8Cont(b, 4) THEN 4 ELSE 0)
  ELSE IF b[1] = 244
  THEN (IF Utf8In(b, 2, 128, 143) /\ Utf8Cont(b, 3) /\ Utf8Cont(b, 4) THEN 4 ELSE 0)
  ELSE 0

\* data.decode('utf-8') does not raise
RECURSIVE Utf8Valid(_)
Utf8Valid(b) ==
  IF b = <<>> THEN TRUE
  ELSE Utf8Length(b) > 0 /\ Utf8Valid(SubSeq(b, Utf8Length(b) + 1, Len(b)))

\* "Server received: "
ServerReceived ==
  <<83, 101, 114, 118, 101, 114, 32, 114, 101, 99, 101, 105, 118, 101, 100, 58, 32>>

\* the queue_response calls of the default on_data_received: the echo of a
\* payload that decodes as UTF-8, nothing where the decode raises
EchoCalls(session_id, data) ==
  IF Utf8Valid(data) THEN <<<<session_id, ServerReceived \o data>>>> ELSE <<>>

\* the queue after the queue_response calls
RECURSIVE StandaloneQueued(_, _)
StandaloneQueued(queue, queued_calls) ==
  IF queued_calls = <<>> THEN queue
  ELSE StandaloneQueued(standalone_queue_response(queue, queued_calls[1][1],
                                                  queued_calls[1][2]),
                        Tail(queued_calls))

\* server.py on_data_received as a function of the queue
on_data_received(queue, session_id, data) ==
  StandaloneQueued(queue, EchoCalls(session_id, data))

\* the poll path after the response was built: struct.error ends the
\* handler before the reply and before the entry is deleted
StandaloneReplied(parsed, decoded, addr, response_data, response) ==
  IF response = None
  THEN Outcome(parsed, decoded, sessions, session_metadata, response_queue,
               <<>>, <<>>, <<>>, TRUE)
  ELSE Outcome(parsed, decoded, sessions, session_metadata,
               IF response_data # None /\ response_data[1] # <<>>
               THEN Del(response_queue, decoded[1][1]) ELSE response_queue,
               <<>>, <<>>, <<<<response[1], addr>>>>, FALSE)

\* the poll path: response_data = self.response_queue.get(session_id)
StandalonePolled(parsed, decoded, addr, response_data) ==
  StandaloneReplied(parsed, decoded, addr, response_data,
                    standalone_create_dns_response(parsed[1][1], parsed[1][2],
                                                   parsed[1][3], response_data))

\* the end of the upload path: complete_data is what
\* _assemble_session_data returned
StandaloneDeliver(parsed, decoded, plain, addr, stored, stamped, complete_data) ==
  IF complete_data # None /\ complete_data[1] # <<>>
  THEN Outcome(parsed, decoded, Del(stored, decoded[1][1]), Del(stamped, decoded[1][1]),
               on_data_received(response_queue, decoded[1][1], complete_data[1]),
               <<<<decoded[1][1], complete_data[1], addr>>>>,
               EchoCalls(decoded[1][1], complete_data[1]),
               <<plain>>, FALSE)
  ELSE Outcome(parsed, decoded, stored, stamped, response_queue, <<>>, <<>>, <<plain>>, FALSE)

StandaloneAssembled(parsed, decoded, plain, addr, stored, stamped) ==
  StandaloneDeliver(parsed, decoded, plain, addr, stored, stamped,
                    standalone_assemble_session_data(stored, stamped, decoded[1][1]))

\* the upload path: store the chunk, stamp the metadata
StandaloneUpload(parsed, decoded, plain, addr) ==
  StandaloneAssembled(parsed, decoded, plain, addr,
                      StoreChunk(sessions, decoded[1][1], decoded[1][2], decoded[1][4]),
                      Put(session_metadata, decoded[1][1], <<decoded[1][3], now>>))

StandaloneDecoded(parsed, decoded, plain, addr) ==
  IF decoded = None
  THEN Outcome(parsed, None, sessions, session_metadata, response_queue,
               <<>>, <<>>, <<plain>>, FALSE)
  ELSE IF decoded[1][4] = RECV
  THEN StandalonePolled(parsed, decoded, addr,
                        IF Has(response_queue, decoded[1][1])
                        THEN Some(response_queue[decoded[1][1]]) ELSE None)
  ELSE StandaloneUpload(parsed, decoded, plain, addr)

StandaloneParsed(parsed, addr) ==
  IF parsed = None
  THEN Outcome(None, None, sessions, session_metadata, response_queue,
               <<>>, <<>>, <<>>, FALSE)
  ELSE StandaloneDecoded(parsed, standalone_decode_subdomain(parsed[1][2], ServerDomain),
                         <<standalone_create_dns_response(parsed[1][1], parsed[1][2],
                                                          parsed[1][3], None)[1],
                           addr>>,
                         addr)

\* server.py handle_query run as one uninterrupted handler
standalone_handle_query(data, addr) == StandaloneParsed(standalone_parse_dns_query(data), addr)

(***************************************************************************)
(* The standalone server with its sweep: datagrams are handled one at a    *)
(* time, the clock advances in steps of the sweep's sleep, and a pass of   *)
(* _cleanup_old_sessions is a scan followed by one step per expired        *)
(* session, handlers running in between.                                   *)
(***************************************************************************)
\* time.sleep(60)
cleanup_interval == 60

MaxTicks == 6

\* current_time - metadata['last_activity'] > 300
IsExpiredReversed(current_time, last_activity) == last_activity - current_time > 300

IsExpired(current_time, last_activity) == current_time - last_activity > 300

\* the elements of a set of numbers, ascending
RECURSIVE Ascending(_)
Ascending(S) ==
  IF S = {} THEN <<>>
  ELSE <<CHOOSE x \in S : \A y \in S : x <= y>>
         \o Ascending(S \ {CHOOSE x \in S : \A y \in S : x <= y})

\* the list expired_sessions of a pass
expired_sessions(metadata, current_time) ==
  Ascending({s \in DOMAIN metadata : IsExpired(current_time, metadata[s][2])})

\* "if session_id in d: del d[session_id]"
Discard(d, session_id) == IF Has(d, session_id) THEN Del(d, session_id) ELSE d

\* the sessions a handler run uploaded to or queued a response for
Touched(decoded, queued_calls) ==
  (IF decoded = None \/ decoded[1][4] = RECV THEN {} ELSE {decoded[1][1]})
  \cup {queued_calls[k][1] : k \in 1..Len(queued_calls)}

\* the times of upload and of queueing, and the sessions found idle by the
\* last scan and not touched since, after a step at time t that left the
\* response queue as queue
ActivityAfter(act, decoded, queue, queued_calls, t) ==
  [uploaded |-> IF decoded = None \/ decoded[1][4] = RECV THEN act.uploaded
                ELSE Put(act.uploaded, decoded[1][1], t),
   queued |-> [s \in DOMAIN queue |->
                 IF s \in Touched(None, queued_calls) THEN t ELSE act.queued[s]],
   idle |-> [s \in DOMAIN act.idle \ Touched(decoded, queued_calls) |-> act.idle[s]]]

\* the sessions with upload state whose last upload lies more than 300 s
\* before the scan at time t, with what the server held for each
IdleAt(act, t) ==
  [s \in {x \in DOMAIN sessions \cup DOMAIN session_metadata : t - act.uploaded[x] > 300} |->
     [chunks |-> IF Has(sessions, s) THEN Cardinality(DOMAIN sessions[s]) ELSE 0,
      queued |-> Has(response_queue, s)]]

\* the datagrams of uploads of one and of two chunks, and polls
StandaloneDatagrams ==
  UploadDatagramsOf(SessionId, PayloadHi, ServerDomain)
  \cup UploadDatagramsOf(SessionId, PayloadA, ServerDomain)
  \cup {create_dns_query(PollName(SessionId, 0), ServerDomain, TYPE_TXT, PollTid),
        create_dns_query(PollName(SessionId, 0), ServerDomain, TYPE_A, PollTid)}

standaloneFrame == <<scenarioVars, threads, client, polled, overwritten>>

InitStandalone ==
  /\ InitServer /\ InitObserver /\ InitScenario
  /\ threads = <<>> /\ client = <<>>
  /\ sweep = [pc |-> "sleep", since |-> 0, current_time |-> None, expired |-> <<>>]
  /\ activity = [uploaded |-> EmptyDict, queued |-> EmptyDict, idle |-> EmptyDict]

\* the server handles one datagram
StandaloneReceive ==
  /\ \E data \in StandaloneDatagrams :
       \E o \in {standalone_handle_query(data, ClientAddr)} :
         /\ sessions' = o.sessions
         /\ session_metadata' = o.session_metadata
         /\ response_queue' = o.response_queue
         /\ callbacks' = o.callbacks
         /\ sent' = o.sent
         /\ fault' = o.fault
         /\ last' = LastOp("query", o.parsed, o.decoded, 0, <<>>)
         /\ queued_payload' = RecordQueued(queued_payload, o.queued)
         /\ activity' = ActivityAfter(activity, o.decoded, o.response_queue, o.queued, now)
  /\ UNCHANGED <<now, sweep, standaloneFrame>>

\* the consumer calls queue_response outside a callback
StandaloneQueue ==
  /\ response_queue' = standalone_queue_response(response_queue, SessionId, PayloadOk)
  /\ callbacks' = <<>>
  /\ sent' = <<>>
  /\ fault' = FALSE
  /\ last' = LastOp("queue", None, None, SessionId, PayloadOk)
  /\ queued_payload' = Put(queued_payload, SessionId, PayloadOk)
  /\ activity' = ActivityAfter(activity, None, response_queue',
                               <<<<SessionId, PayloadOk>>>>, now)
  /\ UNCHANGED <<sessions, session_metadata, now, sweep, standaloneFrame>>

\* a sleep period passes
Tick ==
  /\ now < MaxTicks * cleanup_interval
  /\ now' = now + cleanup_interval
  /\ UNCHANGED <<sessions, session_metadata, response_queue, callbacks, sent, fault,
                 observerVars, scenarioVars, otherVars>>

\* the sweep wakes, reads the clock and lists the expired sessions
SweepScan ==
  /\ sweep.pc = "sleep"
  /\ now - sweep.since >= cleanup_interval
  /\ \E expired \in {expired_sessions(session_metadata, now)} :
       sweep' = [pc |-> IF expired = <<>> THEN "sleep" ELSE "delete",
                 since |-> IF expired = <<>> THEN now ELSE sweep.since,
                 current_time |-> Some(now),
                 expired |-> expired]
  /\ activity' = [activity EXCEPT !.idle = IdleAt(activity, now)]
  /\ last' = LastOp("sweep", None, None, 0, <<>>)
  /\ UNCHANGED <<serverVars, queued_payload, standaloneFrame>>

\* the sweep deletes the next expired session; after the last it sleeps
SweepDelete ==
  /\ sweep.pc = "delete"
  /\ sessions' = Discard(sessions, Head(sweep.expired))
  /\ session_metadata' = Discard(session_metadata, Head(sweep.expired))
  /\ response_queue' = Discard(response_queue, Head(sweep.expired))
  /\ sweep' = [sweep EXCEPT !.expired = Tail(sweep.expired),
                            !.pc = IF Len(sweep.expired) = 1 THEN "sleep" ELSE "delete",
                            !.since = IF Len(sweep.expired) = 1 THEN now ELSE sweep.since]
  /\ activity' = ActivityAfter(activity, None, response_queue', <<>>, now)
  /\ last' = LastOp("sweep", None, None, 0, <<>>)
  /\ UNCHANGED <<now, callbacks, sent, fault, queued_payload, standaloneFrame>>

NextStandalone == StandaloneReceive \/ StandaloneQueue \/ Tick \/ SweepScan \/ SweepDelete

SpecStandalone == InitStandalone /\ [][NextStandalone]_vars

C9_StaleResponseSwept ==
  (sweep.pc = "sleep" /\ sweep.current_time # None) =>
    \A s \in DOMAIN response_queue :
      ~(sweep.current_time[1] - activity.queued[s] > 300)

\* C31: a deletion step of the sweep deletes the state of a session only
\* if its last upload lies more than 300 s back at the time of the deletion
C31_SweepSparesActiveSessions ==
  [][(/\ sweep.pc = "delete"
      /\ sweep'.expired # sweep.expired
      /\ Has(session_metadata, Head(sweep.expired)))
       => IsExpired(now, session_metadata[Head(sweep.expired)][2])]_vars

(***************************************************************************)
(* The consumer of src/server/server.py: Server._handle_request is the     *)
(* callback registered with DNSTunnelServer of src/dnstunnel.py.           *)
(***************************************************************************)
\* "|||"
Bars == <<124, 124, 124>>

\* index (1-based) of the first occurrence of "|||" in s, 0 if there is none
FindBars(s) ==
  IF \E i \in 1..Len(s) - 2 : SubSeq(s, i, i + 2) = Bars
  THEN CHOOSE i \in 1..Len(s) - 2 :
         /\ SubSeq(s, i, i + 2) = Bars
         /\ \A j \in 1..i - 1 : SubSeq(s, j, j + 2) # Bars
  ELSE 0

\* data.split("|||")
RECURSIVE SplitBars(_)
SplitBars(s) ==
  IF FindBars(s) = 0 THEN <<s>>
  ELSE <<SubSeq(s, 1, FindBars(s) - 1)>> \o SplitBars(SubSeq(s, FindBars(s) + 3, Len(s)))

\* "ACK", "PROMPT", "NOPE"
CommandAck == <<65, 67, 75>>
CommandPrompt == <<80, 82, 79, 77, 80, 84>>
CommandNope == <<78, 79, 80, 69>>

\* Server._prompt: args[0] raises IndexError without arguments; answer is
\* what LLM.prompt returned, None where it raised
prompt(args, answer) ==
  IF args = <<>> \/ answer = None THEN Raised ELSE answer

\* self.commands[command](args): KeyError for a command not in the dict
RunCommand(splitted, answer) ==
  IF splitted[1] = CommandAck THEN Some(CommandAck)
  ELSE IF splitted[1] = CommandPrompt THEN prompt(Tail(splitted), answer)
  ELSE Raised

\* Server._handle_request: the reply it queues, or Raised; data.decode()
\* raises on bytes that are not UTF-8
handle_request(data, answer) ==
  IF ~Utf8Valid(data) THEN Raised ELSE RunCommand(SplitBars(data), answer)

\* "ACK", "PROMPT|||hi", "PROMPT", "NOPE", one byte that is not UTF-8, and
\* 37 bytes in two chunks that are not UTF-8
ConsumerPayloads ==
  {CommandAck, CommandPrompt \o Bars \o PayloadHi, CommandPrompt, CommandNope, <<255>>,
   UploadOfChunks(2)}

ConsumerDatagrams ==
  UNION {UploadDatagramsOf(SessionId, payload, ServerDomain) : payload \in ConsumerPayloads}
  \cup {create_dns_query(PollName(SessionId, 0), ServerDomain, TYPE_TXT, PollTid)}

\* what LLM.prompt gives: an exception, or a text
LlmAnswers == {None, Some(PayloadOk)}

\* what the callback does in a handler run that makes the calls given
ConsumerReaction(calls, answer) ==
  IF calls = <<>> THEN None ELSE handle_request(calls[1][2], answer)

\* the server handles one datagram, the consumer being its callback
ConsumerReceive ==
  /\ \E data \in ConsumerDatagrams : \E answer \in LlmAnswers :
       HandleQuery(data, ClientAddr,
                   ConsumerReaction(handle_query(data, ClientAddr, None).callbacks, answer))
  /\ UNCHANGED <<scenarioVars, otherVars>>

SpecConsumer == Init /\ [][ConsumerReceive]_vars

\* C34: the handler of an upload chunk whose callback raised has deleted
\* the session's chunks and metadata and sent the one reply without text
C34_CallbackFaultIsContained ==
  (LastIsUpload /\ callbacks # <<>> /\ fault)
    => /\ ~Has(sessions, last.decoded[1][1])
       /\ ~Has(session_metadata, last.decoded[1][1])
       /\ ContentLessReply(sent, last.parsed, ClientAddr)

(***************************************************************************)
(* Upload chunks of one session that declare different totals, handled by  *)
(* DNSTunnelServer of src/dnstunnel.py one at a time while the clock       *)
(* advances.                                                               *)
(***************************************************************************)
\* the chunks of uploads of one, two and three chunks
TotalsDatagrams ==
  UNION {UploadDatagramsOf(SessionId, payload, ServerDomain) :
           payload \in {PayloadHi, PayloadA, UploadOfChunks(3)}}

\* the total the session declared before a handler ran, None without one
DeclaredTotal ==
  IF Has(session_metadata, SessionId) THEN Some(session_metadata[SessionId][1]) ELSE None

InitTotals ==
  /\ InitServer /\ InitObserver /\ InitOther
  /\ upload = <<>> /\ pending = {} /\ arrived = None /\ delivered = <<>>

\* the server handles one upload chunk; arrived keeps the total declared
\* before
TotalsReceive ==
  /\ \E data \in TotalsDatagrams : HandleQuery(data, ClientAddr, None)
  /\ arrived' = DeclaredTotal
  /\ UNCHANGED <<upload, pending, delivered, otherVars>>

NextTotals == TotalsReceive \/ Tick

SpecTotals == InitTotals /\ [][NextTotals]_vars

\* the handler of upload chunk d, whose session then holds the chunks held:
\* unless it delivers, the session keeps the chunks held under the total of
\* d and the time of the handling; it delivers exactly if the chunks held
\* are complete for the total of d
JudgedByTotalOf(d, held) ==
  /\ callbacks' = <<>>
       => /\ Has(sessions', d[1]) /\ sessions'[d[1]] = held
          /\ Has(session_metadata', d[1]) /\ session_metadata'[d[1]] = <<d[3], now>>
  /\ callbacks' # <<>>
       <=> /\ DOMAIN held = 0..(d[3] - 1)
           /\ HeldPayload(held, d[3]) # None /\ HeldPayload(held, d[3])[1] # <<>>

\* C36: the handler of an upload chunk stores the chunk's total as the
\* session's total with the current time, keeps the chunks stored before,
\* and judges completeness by that total
C36_LatestTotalGoverns ==
  [][last'.op = "query" /\ now' = now
       => JudgedByTotalOf(last'.decoded[1], HeldWith(last'.decoded[1]))]_vars

\* a session that declared three chunks and held chunk 1 got, at a later
\* time, chunk 0 of an upload of one chunk: it holds both chunks under the
\* total 1 and the later time, and nothing was delivered
C36_Witness ==
  /\ LastIsUpload /\ arrived = Some(3)
  /\ last.decoded[1][3] = 1
  /\ callbacks = <<>>
  /\ DOMAIN sessions[SessionId] = {0, 1}
  /\ session_metadata[SessionId] = <<1, now>> /\ now > 0

(***************************************************************************)
(* Responses queued again: the consumer calls queue_response for either of *)
(* two sessions at any time, and polls of both sessions are handled.       *)
(***************************************************************************)
\* responses of one chunk and of two chunks
RequeuePayloads == {PayloadOk, PayloadFull, PayloadTwo}

\* the text-record polls of session s for the indices 0 and 1
RequeuePolls(s) ==
  {create_dns_query(PollName(s, n), ServerDomain, TYPE_TXT, PollTid) : n \in 0..1}

\* the payloads a queue_response replaced while they were queued, by session
ReplacedBy(rec, session_id) ==
  IF Has(response_queue, session_id) THEN Put(rec, session_id, queued_payload[session_id])
  ELSE IF Has(rec, session_id) THEN Del(rec, session_id) ELSE rec

InitRequeue ==
  /\ InitServer /\ InitObserver /\ InitOther
  /\ upload = <<>> /\ pending = {} /\ arrived = EmptyDict /\ delivered = <<>>

\* the server handles a poll
RequeuePoll ==
  /\ \E s \in SessionIds : \E data \in RequeuePolls(s) : HandleQuery(data, ClientAddr, None)
  /\ UNCHANGED <<scenarioVars, otherVars>>

\* the consumer calls queue_response
RequeueQueue ==
  /\ \E s \in SessionIds : \E data \in RequeuePayloads :
       /\ QueueResponse(s, data)
       /\ arrived' = ReplacedBy(arrived, s)
  /\ UNCHANGED <<upload, pending, delivered, otherVars>>

NextRequeue == RequeuePoll \/ RequeueQueue

SpecRequeue == InitRequeue /\ [][NextRequeue]_vars

\* the reply to the poll d of a session with a response queued is the chunk
\* of the payload queued last at the index polled, and a reply without text
\* beyond its last index
AnsweredFrom(d, chunks) ==
  IF d[2] < Len(chunks) THEN CarriesText(sent', chunks[d[2] + 1])
  ELSE ContentLessReply(sent', last'.parsed, ClientAddr)

\* C37: queue_response stores the chunks of its payload as the whole queued
\* sequence of the session; a poll of a session with a response queued is
\* answered from the chunks of the payload queued last; neither changes
\* what is queued for another session
C37_RequeueReplaces ==
  [][/\ last'.op = "queue"
          => /\ response_queue'[last'.session_id] = response_chunks(last'.data)
             /\ \A o \in SessionIds \ {last'.session_id} :
                  Held(response_queue, o)' = Held(response_queue, o)
     /\ (last'.op = "query" /\ Has(response_queue, last'.decoded[1][1]))
          => /\ AnsweredFrom(last'.decoded[1],
                             response_chunks(queued_payload[last'.decoded[1][1]]))
             /\ \A o \in SessionIds \ {last'.decoded[1][1]} :
                  Held(response_queue, o)' = Held(response_queue, o)]_vars

\* the one-chunk response of session 4242 was replaced while queued by a
\* two-chunk response; the poll for index 1 got the second chunk of the
\* latter, the entry is removed, and session 4243 has its response queued
C37_Witness ==
  /\ LastIsPoll /\ last.decoded[1][1] = SessionId /\ last.decoded[1][2] = 1
  /\ Has(arrived, SessionId) /\ arrived[SessionId] = PayloadFull
  /\ queued_payload[SessionId] = PayloadTwo
  /\ CarriesText(sent, response_chunks(PayloadTwo)[2])
  /\ ~Has(response_queue, SessionId)
  /\ Has(response_queue, OtherSessionId)

(***************************************************************************)
(* The lengths of the names the two sides build: the upload label of       *)
(* DNSTunnelClient.send and the queued chunk of                            *)
(* DNSTunnelServer.queue_response, for chunk counts up to 10^6.  The text  *)
(* is given by its length; a stretch of it is a text of the stretch's      *)
(* length.                                                                 *)
(***************************************************************************)
\* the counts at which the number of digits changes, up to 10^6
ChunkCounts ==
  {1, 2, 9, 10, 99, 100, 999, 1000, 9999, 10000, 99999, 100000, 999999, 1000000}

\* the chunk indices below total at which the number of digits changes, and
\* the last one
ChunkIndices(total_chunks) ==
  {n \in {0} \cup ChunkCounts : n < total_chunks} \cup {total_chunks - 1}

\* the ends of the range of random.randint(1000, 9999)
WidthSessions == {1000, 9999}

\* len(encoded[i*width:(i+1)*width]) for len(encoded) = length
StretchLength(length, i, width) == Min(width, length - i * width)

WidthAt(stage, session_id, i, total_chunks, full, label, chunk) ==
  [stage |-> stage, session_id |-> session_id, i |-> i, total_chunks |-> total_chunks,
   full |-> full, label |-> label, chunk |-> chunk]

\* full tells whether the last stretch of the text is a full one, or one
\* character long
InitWidth ==
  /\ InitServer /\ InitObserver
  /\ upload = <<>>
  /\ \E session_id \in WidthSessions : \E total_chunks \in ChunkCounts :
       \E i \in ChunkIndices(total_chunks) : \E full \in BOOLEAN :
         client = WidthAt("inputs", session_id, i, total_chunks, full, <<>>, <<>>)
  /\ pending = {} /\ arrived = <<>> /\ delivered = <<>>
  /\ threads = <<>> /\ sweep = <<>> /\ activity = <<>>

\* the length of the encoded text of c cut at width
WidthLength(c, width) ==
  IF c.full THEN width * c.total_chunks ELSE width * (c.total_chunks - 1) + 1

\* the subdomain send builds for chunk i of total_chunks chunks
WidthLabel ==
  /\ client.stage = "inputs"
  /\ client' = [client EXCEPT
       !.stage = "label",
       !.label = UploadName(client.session_id, client.i, client.total_chunks,
                            Letters(StretchLength(WidthLength(client, upload_chunk_size),
                                                  client.i, upload_chunk_size)))]
  /\ UNCHANGED codecFrame

\* the chunk queue_response stores at index i: the text itself when it fits
\* one chunk, the header and the stretch otherwise
QueuedChunk(length, i, total_chunks, effective_chunk_size) ==
  IF length <= effective_chunk_size THEN Letters(length)
  ELSE ChunkHeader(i, total_chunks)
         \o Letters(StretchLength(length, i, effective_chunk_size))

WidthChunk ==
  /\ client.stage = "label"
  /\ client' = [client EXCEPT
       !.stage = "chunk",
       !.chunk = QueuedChunk(WidthLength(client, max_chunk_size - header_overhead),
                             client.i, client.total_chunks,
                             max_chunk_size - header_overhead)]
  /\ UNCHANGED codecFrame

NextWidth == WidthLabel \/ WidthChunk

SpecWidth == InitWidth /\ [][NextWidth]_vars

\* C38: for session ids 1000..9999 and up to 10^6 chunks the upload label
\* is at most 63 bytes long, and the queued chunk with its header is at
\* most max_chunk_size characters long, and so at most 255
C38_NamesFit ==
  /\ client.stage \in {"label", "chunk"} => Len(client.label) <= 63
  /\ client.stage = "chunk"
       => Len(client.chunk) <= max_chunk_size /\ Len(client.chunk) <= 255

=============================================================================
